---- MODULE Spec2Model ----
(***************************************************************************)
(* Model of the Handmade Goods Pricing Assistant (ThanhT5/price-recommender). *)
(*                                                                         *)
(* Python floats are IEEE-754 binary64 values.  They are modelled exactly: *)
(* a float is a record [s, m, e] standing for (-1)^s * m * 2^e, where m is *)
(* an arbitrary-precision natural (little-endian limbs of 15 bits) that is *)
(* odd or zero, so that equal values are equal records.  Every arithmetic  *)
(* operator rounds to 53 significant bits, ties to even, as the hardware   *)
(* does; round(x, n) is Python's correctly rounded decimal rounding.       *)
(* Exponent overflow and subnormals are outside the value ranges used.     *)
(***************************************************************************)
EXTENDS Integers, Sequences, FiniteSets, TLC

(***************************************************************************)
(* Arbitrary-precision naturals                                            *)
(***************************************************************************)
Base == 2^15

RECURSIVE ILen(_)
ILen(k) == IF k = 0 THEN 0 ELSE 1 + ILen(k \div 2)

RECURSIVE ITz(_)
ITz(k) == IF k % 2 = 1 THEN 0 ELSE 1 + ITz(k \div 2)

Limb(a, i) == IF i <= Len(a) THEN a[i] ELSE 0

Rest(a) == IF a = <<>> THEN <<>> ELSE Tail(a)

RECURSIVE BNorm(_)
BNorm(a) ==
    IF a = <<>> THEN a
    ELSE IF a[Len(a)] = 0 THEN BNorm(SubSeq(a, 1, Len(a) - 1)) ELSE a

RECURSIVE BFromInt(_)
BFromInt(k) == IF k = 0 THEN <<>> ELSE <<k % Base>> \o BFromInt(k \div Base)

RECURSIVE BToInt(_)
BToInt(a) == IF a = <<>> THEN 0 ELSE a[1] + Base * BToInt(Tail(a))

RECURSIVE BAddC(_, _, _)
BAddC(a, b, c) ==
    IF a = <<>> /\ b = <<>> THEN (IF c = 0 THEN <<>> ELSE <<c>>)
    ELSE LET s == Limb(a, 1) + Limb(b, 1) + c
         IN  <<s % Base>> \o BAddC(Rest(a), Rest(b), s \div Base)

BAdd(a, b) == BAddC(a, b, 0)

RECURSIVE BSubC(_, _, _)
BSubC(a, b, c) ==
    IF a = <<>> THEN <<>>
    ELSE LET s == a[1] - Limb(b, 1) - c
         IN  <<s % Base>> \o BSubC(Tail(a), Rest(b), IF s < 0 THEN 1 ELSE 0)

\* a - b for a >= b
BSub(a, b) == BNorm(BSubC(a, b, 0))

RECURSIVE BCmpAt(_, _, _)
BCmpAt(a, b, i) ==
    IF i = 0 THEN 0
    ELSE IF a[i] < b[i] THEN -1
    ELSE IF a[i] > b[i] THEN 1
    ELSE BCmpAt(a, b, i - 1)

\* -1, 0 or 1 as a < b, a = b, a > b
BCmp(a, b) ==
    IF Len(a) < Len(b) THEN -1
    ELSE IF Len(a) > Len(b) THEN 1
    ELSE BCmpAt(a, b, Len(a))

RECURSIVE BMulSmallC(_, _, _)
BMulSmallC(a, k, c) ==
    IF a = <<>> THEN (IF c = 0 THEN <<>> ELSE <<c>>)
    ELSE LET p == a[1] * k + c
         IN  <<p % Base>> \o BMulSmallC(Tail(a), k, p \div Base)

\* a * k for 0 < k <= Base
BMulSmall(a, k) == BMulSmallC(a, k, 0)

RECURSIVE BMulR(_, _)
BMulR(a, b) ==
    IF b = <<>> THEN <<>>
    ELSE BAdd(BMulSmall(a, b[1]), <<0>> \o BMulR(a, Tail(b)))

BMul(a, b) == IF a = <<>> \/ b = <<>> THEN <<>> ELSE BNorm(BMulR(a, b))

Zeros(n) == [i \in 1..n |-> 0]

\* a * 2^n
BShl(a, n) ==
    IF a = <<>> THEN <<>>
    ELSE Zeros(n \div 15) \o BMulSmall(a, 2^(n % 15))

\* a quotient so far with one more (lowest) digit d
PushDigit(rest, d) == [q |-> rest.q \o <<d>>, r |-> rest.r]

RECURSIVE BDivSmallAt(_, _, _, _)
BDivSmallAt(a, k, i, r) ==
    IF i = 0 THEN [q |-> <<>>, r |-> r]
    ELSE PushDigit(BDivSmallAt(a, k, i - 1, (r * Base + a[i]) % k), (r * Base + a[i]) \div k)

NormQ(d) == [q |-> BNorm(d.q), r |-> d.r]

\* quotient and remainder of a by k, for 0 < k <= Base
BDivSmall(a, k) == NormQ(BDivSmallAt(a, k, Len(a), 0))

\* floor(a / 2^n)
BShr(a, n) ==
    IF n \div 15 >= Len(a) THEN <<>>
    ELSE BDivSmall(SubSeq(a, n \div 15 + 1, Len(a)), 2^(n % 15)).q

BitLen(a) == IF a = <<>> THEN 0 ELSE 15 * (Len(a) - 1) + ILen(a[Len(a)])

BIsOdd(a) == a # <<>> /\ a[1] % 2 = 1

RECURSIVE BTz(_)
BTz(a) == IF a[1] = 0 THEN 15 + BTz(Tail(a)) ELSE ITz(a[1])

\* the largest d < Base with b * d <= r, found bit by bit from bit j down
RECURSIVE QSearch(_, _, _, _)
QSearch(r, b, d, j) ==
    IF j < 0 THEN d
    ELSE IF BCmp(BMulSmall(b, d + 2^j), r) <= 0 THEN QSearch(r, b, d + 2^j, j - 1)
    ELSE QSearch(r, b, d, j - 1)

\* long division of a by b, limb i downwards, with remainder r so far
RECURSIVE BDivLimbs(_, _, _, _)
RECURSIVE BDivDigit(_, _, _, _, _)
BDivLimbs(a, b, i, r) ==
    IF i = 0 THEN [q |-> <<>>, r |-> r]
    ELSE BDivDigit(a, b, i, BNorm(<<a[i]>> \o r), QSearch(BNorm(<<a[i]>> \o r), b, 0, 14))

\* the step of the long division whose quotient digit is d
BDivDigit(a, b, i, r2, d) ==
    PushDigit(BDivLimbs(a, b, i - 1, IF d = 0 THEN r2 ELSE BSub(r2, BMulSmall(b, d))), d)

\* quotient and remainder of a by b, for b nonzero
BDivMod(a, b) == NormQ(BDivLimbs(a, b, Len(a), <<>>))

\* q, or q + 1 when the discarded part is above one half (c > 0) or is one
\* half (c = 0) and either more follows (sticky) or q is odd
HalfEvenUp(q, c, sticky) ==
    IF c > 0 \/ (c = 0 /\ (sticky \/ BIsOdd(q))) THEN BAdd(q, <<1>>) ELSE q

HalfEvenAt(n, sh, q, sticky) ==
    HalfEvenUp(q, BCmp(BSub(n, BShl(q, sh)), BShl(<<1>>, sh - 1)), sticky)

\* n / 2^sh rounded to an integer, ties to even, for sh > 0
BRoundShr(n, sh, sticky) == HalfEvenAt(n, sh, BShr(n, sh), sticky)

(***************************************************************************)
(* binary64 floats                                                         *)
(***************************************************************************)
MkFAt(s, n, e, t) == [s |-> s, m |-> BShr(n, t), e |-> e + t]

\* the float (-1)^s * n * 2^e in canonical form (n odd, or zero with e = 0)
MkF(s, n, e) ==
    IF n = <<>> THEN [s |-> s, m |-> <<>>, e |-> 0] ELSE MkFAt(s, n, e, BTz(n))

RoundBits(s, n, e, sticky, sh) ==
    IF sh <= 0 THEN MkF(s, n, e) ELSE MkF(s, BRoundShr(n, sh, sticky), e + sh)

\* (-1)^s * n * 2^e rounded to 53 significant bits, ties to even; sticky says
\* that the exact value lies strictly above n * 2^e (by less than 2^e)
RoundNE(s, n, e, sticky) == RoundBits(s, n, e, sticky, BitLen(n) - 53)

FZero == [s |-> 0, m |-> <<>>, e |-> 0]

FIsZero(x) == x.m = <<>>

\* the float of a natural number k
FromInt(k) == RoundNE(0, BFromInt(k), 0, FALSE)

FNeg(x) == [x EXCEPT !.s = 1 - x.s]

Min(a, b) == IF a < b THEN a ELSE b

MagCmpAt(x, y, e) == BCmp(BShl(x.m, x.e - e), BShl(y.m, y.e - e))

\* sign of the exact difference |x| - |y|
MagCmp(x, y) ==
    IF FIsZero(x) THEN (IF FIsZero(y) THEN 0 ELSE -1)
    ELSE IF FIsZero(y) THEN 1
    ELSE MagCmpAt(x, y, Min(x.e, y.e))

\* -1, 0 or 1 as x < y, x == y, x > y (with -0.0 == 0.0)
FCmp(x, y) ==
    IF FIsZero(x) /\ FIsZero(y) THEN 0
    ELSE IF FIsZero(x) THEN (IF y.s = 1 THEN 1 ELSE -1)
    ELSE IF FIsZero(y) THEN (IF x.s = 1 THEN -1 ELSE 1)
    ELSE IF x.s # y.s THEN (IF x.s = 1 THEN -1 ELSE 1)
    ELSE IF x.s = 0 THEN MagCmp(x, y) ELSE MagCmp(y, x)

FLt(x, y) == FCmp(x, y) < 0
FGt(x, y) == FCmp(x, y) > 0
FLe(x, y) == FCmp(x, y) <= 0
FGe(x, y) == FCmp(x, y) >= 0
FEq(x, y) == FCmp(x, y) = 0

\* magnitudes nx * 2^e and ny * 2^e of opposite signs sx, sy, with c = BCmp(nx, ny)
AddOpposite(sx, sy, e, nx, ny, c) ==
    IF c = 0 THEN FZero
    ELSE IF c > 0 THEN RoundNE(sx, BSub(nx, ny), e, FALSE)
    ELSE RoundNE(sy, BSub(ny, nx), e, FALSE)

AddAligned(sx, sy, e, nx, ny) ==
    IF sx = sy THEN RoundNE(sx, BAdd(nx, ny), e, FALSE)
    ELSE AddOpposite(sx, sy, e, nx, ny, BCmp(nx, ny))

AddAt(x, y, e) == AddAligned(x.s, y.s, e, BShl(x.m, x.e - e), BShl(y.m, y.e - e))

\* x + y
FAdd(x, y) ==
    IF FIsZero(x) /\ FIsZero(y) THEN [s |-> IF x.s = 1 /\ y.s = 1 THEN 1 ELSE 0, m |-> <<>>, e |-> 0]
    ELSE IF FIsZero(x) THEN y
    ELSE IF FIsZero(y) THEN x
    ELSE AddAt(x, y, Min(x.e, y.e))

\* x - y
FSub(x, y) == FAdd(x, FNeg(y))

SignOf(x, y) == IF x.s = y.s THEN 0 ELSE 1

\* x * y
FMul(x, y) ==
    RoundNE(SignOf(x, y), BMul(x.m, y.m), IF FIsZero(x) \/ FIsZero(y) THEN 0 ELSE x.e + y.e, FALSE)

DivRound(s, qr, e) == RoundNE(s, qr.q, e, qr.r # <<>>)

DivAt(x, y, k) == DivRound(SignOf(x, y), BDivMod(BShl(x.m, k), y.m), x.e - y.e - k)

\* x / y for y nonzero: the quotient is taken to at least 55 bits
FDiv(x, y) ==
    IF FIsZero(x) THEN [s |-> SignOf(x, y), m |-> <<>>, e |-> 0]
    ELSE DivAt(x, y, IF 55 + BitLen(y.m) > BitLen(x.m) THEN 55 + BitLen(y.m) - BitLen(x.m) ELSE 0)

\* the float nearest to k / 10^p: what the literal or the parsed text denotes
Dec(k, p) == FDiv(FromInt(k), FromInt(10^p))

\* the floats of the int literals 1, 5, 10 and 100
One == FromInt(1)
Five == FromInt(5)
Ten == FromInt(10)
Hundred == FromInt(100)

\* |x| * 10^nd rounded to an integer, ties to even; n is x.m * 10^nd
ScaledInt(x, n) == IF x.e >= 0 THEN BShl(n, x.e) ELSE BRoundShr(n, 0 - x.e, FALSE)

\* Python's round(x, nd) for a float x and nd >= 0: the float nearest to the
\* decimal that the exact value of x rounds to (ties of the exact value to even)
PyRound(x, nd) ==
    IF FIsZero(x) THEN x
    ELSE FDiv(RoundNE(x.s, ScaledInt(x, BMul(x.m, BFromInt(10^nd))), 0, FALSE), FromInt(10^nd))

IntMag(x) == BToInt(IF x.e >= 0 THEN BShl(x.m, x.e) ELSE BShr(x.m, 0 - x.e))

\* Python's int(x): truncation toward zero (for |x| < 2^30)
PyInt(x) == IF x.s = 1 THEN 0 - IntMag(x) ELSE IntMag(x)

\* Python's None, and the test "x is None"
None == [none |-> TRUE]

(***************************************************************************)
(* State                                                                   *)
(***************************************************************************)
VARIABLES
    weights,       \* PricingCalculator: the five weight attributes
    runs,          \* history: the calls made on the calculator, in order, each
                   \* with the weights before and after it and what it returned
    call,          \* the arguments of the call under study (in the application:
                   \* of the calculate_price call the last operation made)
    result,        \* what that call returned or raised, None before it ends
    screen,        \* which frame the root window shows
    input_frame,   \* InputFrame: its six variables, two sliders and
                   \* recommended_values; None when no such frame exists
    result_frame,  \* ResultFrame: the displayed strings and chart; None likewise
    dialogs,       \* the message boxes the last operation showed, in order
    typed,         \* history: the text last typed into each rating entry
    accepted,      \* history: the recommendation last applied to the calculator
    edits,         \* history: how many entry and slider edits the user made
    ai_available,  \* AIClient.is_available(): fixed when the client is built
    conversation_history,  \* ChatHandler: the list of role/content messages
    chat_frame,    \* ChatFrame: flag, text, widget states; None when none exists
    threads,       \* the background threads that have not ended
    after_queue,   \* the callbacks given to after(0, ...) and not yet run
    started,       \* how many ChatFrames and threads were created so far
    generated,     \* history: what the last _generate_recommendations handed over
    displayed,     \* history: what _display_recommendations last received
    heap,          \* the section dictionaries (Python dict objects), by identity
    configs,       \* the Config objects created so far, in order
    settings_file  \* settings.json of each configuration directory

calcVars == <<weights, runs, call, result>>

appVars == <<screen, input_frame, result_frame, dialogs, typed, accepted, edits>>

chatVars == <<ai_available, conversation_history, chat_frame, threads, after_queue,
              started, generated, displayed>>

configVars == <<heap, configs, settings_file>>

vars == <<weights, runs, call, result, screen, input_frame, result_frame, dialogs, typed,
          accepted, edits, ai_available, conversation_history, chat_frame, threads,
          after_queue, started, generated, displayed, heap, configs, settings_file>>

\* nothing was handed over or displayed yet
Nothing == [nothing |-> TRUE]

\* no chat takes place: the calculator, the validator or the calculator screen
\* is studied alone
(***************************************************************************)
(* src/utils/config.py: the module-level DEFAULT_CONFIG.  A dictionary is  *)
(* an object: the outer dictionary maps a section name to the identity of  *)
(* the section's dictionary in heap.                                       *)
(***************************************************************************)
\* lines 10-31: the values of the literal
DefaultValues ==
    [pricing  |-> [uniqueness_weight |-> Dec(5, 2), demand_weight |-> Dec(4, 2),
                   economy_modifier |-> Dec(85, 2), premium_modifier |-> Dec(125, 2),
                   suggested_price_multiplier |-> Dec(20, 1)],
     ui       |-> [theme |-> [str |-> "default"], currency_symbol |-> [str |-> "$"],
                   decimal_places |-> [int |-> 2]],
     defaults |-> [material_cost |-> Dec(100, 1), hours_worked |-> Dec(20, 1),
                   labor_rate |-> Dec(150, 1), uniqueness |-> [int |-> 5],
                   demand |-> [int |-> 5], selling_price |-> FZero]]

\* lines 10-31: the three section dictionaries the literal creates
DefaultHeap == <<DefaultValues.pricing, DefaultValues.ui, DefaultValues.defaults>>

\* lines 10-31: the outer dictionary of DEFAULT_CONFIG, which no code changes
DEFAULT_CONFIG == [pricing |-> 1, ui |-> 2, defaults |-> 3]

\* the configuration directories of the model
Dirs == {"config", "other"}

\* settings.json does not exist
Absent == [absent |-> TRUE]

\* the module is imported and no Config was created
ConfigIdle ==
    /\ heap = DefaultHeap
    /\ configs = <<>>
    /\ settings_file = [d \in Dirs |-> Absent]

ChatIdle ==
    /\ ai_available = FALSE
    /\ ConfigIdle
    /\ conversation_history = <<>>
    /\ chat_frame = None
    /\ threads = {}
    /\ after_queue = <<>>
    /\ started = [frames |-> 0, threads |-> 0]
    /\ generated = Nothing
    /\ displayed = Nothing

\* the application is not running: the calculator or validator is used alone
NoTyped == [uniqueness |-> None, demand |-> None]

AppIdle ==
    /\ screen = "none"
    /\ input_frame = None
    /\ result_frame = None
    /\ dialogs = <<>>
    /\ typed = NoTyped
    /\ accepted = None
    /\ edits = 0
    /\ runs = <<>>
    /\ ChatIdle

(***************************************************************************)
(* src/logic/pricing.py                                                    *)
(***************************************************************************)
\* an exception raised in place of a value
Raised(o) == "raised" \in DOMAIN o

\* DefaultWeights with a suggested price of three times the costs
DefaultWeights_tripling ==
    [uniqueness_weight          |-> Dec(5, 2),
     demand_weight              |-> Dec(4, 2),
     economy_modifier           |-> Dec(85, 2),
     premium_modifier           |-> Dec(125, 2),
     suggested_price_multiplier |-> Dec(30, 1)]

\* PricingCalculator.__init__: the default weights
DefaultWeights ==
    [uniqueness_weight          |-> Dec(5, 2),
     demand_weight              |-> Dec(4, 2),
     economy_modifier           |-> Dec(85, 2),
     premium_modifier           |-> Dec(125, 2),
     suggested_price_multiplier |-> Dec(20, 1)]

\* lines 38-39: the base price (materials + labor)
BasePrice(material_cost, hours_worked, labor_rate, labor_cost) ==
    [material_cost |-> material_cost,
     labor_cost    |-> labor_cost,
     base_price    |-> FAdd(material_cost, labor_cost)]

\* FactorAdjustments with the ratings measured from 1, the low end of the scale
FactorAdjustments_from_one(w, r, uniqueness, demand) ==
    r @@ [uniqueness_adjustment |-> FMul(FMul(r.base_price, FSub(uniqueness, One)), w.uniqueness_weight),
          demand_adjustment     |-> FMul(FMul(r.base_price, FSub(demand, One)), w.demand_weight)]

\* lines 42-44: the factor adjustments for uniqueness and demand
FactorAdjustments(w, r, uniqueness, demand) ==
    r @@ [uniqueness_adjustment |-> FMul(FMul(r.base_price, FSub(uniqueness, Five)), w.uniqueness_weight),
          demand_adjustment     |-> FMul(FMul(r.base_price, FSub(demand, Five)), w.demand_weight)]

\* lines 44-47: the adjusted price (total costs with adjustments)
AdjustedPrice(r, factor_adjustment) ==
    r @@ [factor_adjustment |-> factor_adjustment,
          adjusted_price    |-> FAdd(r.base_price, factor_adjustment)]

\* FinalPrice without the "> 0" test: any supplied selling price is used
FinalPrice_any_supplied(w, r, selling_price) ==
    r @@ [selling_price |-> IF selling_price # None THEN selling_price ELSE FZero,
          final_price   |-> IF selling_price # None
                            THEN selling_price
                            ELSE FMul(r.adjusted_price, w.suggested_price_multiplier)]

\* lines 50-54: the caller's selling price if one is set, otherwise the suggested price
FinalPrice(w, r, selling_price) ==
    r @@ [selling_price |-> IF selling_price # None THEN selling_price ELSE FZero,
          final_price   |-> IF selling_price # None /\ FGt(selling_price, FZero)
                            THEN selling_price
                            ELSE FMul(r.adjusted_price, w.suggested_price_multiplier)]

\* ProfitAmount with a loss reported as 0
ProfitAmount_clamped(r) ==
    r @@ [profit_amount |-> IF FLt(r.final_price, r.adjusted_price) THEN FZero
                            ELSE FSub(r.final_price, r.adjusted_price)]

\* line 57: the profit
ProfitAmount(r) == r @@ [profit_amount |-> FSub(r.final_price, r.adjusted_price)]

\* Python's a / b on floats
truediv(a, b) ==
    IF FIsZero(b) THEN [raised |-> "ZeroDivisionError", message |-> "float division by zero"]
    ELSE FDiv(a, b)

\* (a / b) * 100
Percent100(quotient) == IF Raised(quotient) THEN quotient ELSE FMul(quotient, Hundred)

\* the two percentages join the figures, unless computing one of them raised
WithPercentages(r, profit_margin_percentage, markup_percentage) ==
    IF Raised(profit_margin_percentage) THEN profit_margin_percentage
    ELSE IF Raised(markup_percentage) THEN markup_percentage
    ELSE r @@ [profit_margin_percentage |-> profit_margin_percentage,
               markup_percentage        |-> markup_percentage]

\* Percentages without the "> 0" tests
Percentages_unguarded(r) ==
    WithPercentages(r, Percent100(truediv(r.profit_amount, r.final_price)),
                    Percent100(truediv(r.profit_amount, r.adjusted_price)))

\* lines 60-66: the profit as a percentage of the final price and of the costs
Percentages(r) ==
    WithPercentages(r,
                    IF FGt(r.final_price, FZero)
                    THEN Percent100(truediv(r.profit_amount, r.final_price)) ELSE FZero,
                    IF FGt(r.adjusted_price, FZero)
                    THEN Percent100(truediv(r.profit_amount, r.adjusted_price)) ELSE FZero)

\* AlternatePrices taken from the costs instead of the final price
AlternatePrices_of_costs(w, r) ==
    r @@ [economy_price |-> FMul(r.adjusted_price, w.economy_modifier),
          premium_price |-> FMul(r.adjusted_price, w.premium_modifier)]

\* lines 69-70: the alternate pricing options
AlternatePrices(w, r) ==
    r @@ [economy_price |-> FMul(r.final_price, w.economy_modifier),
          premium_price |-> FMul(r.final_price, w.premium_modifier)]

\* RoundedResult with the economy price left unrounded
RoundedResult_economy_unrounded(r) ==
    [material_cost            |-> r.material_cost,
     labor_cost               |-> r.labor_cost,
     base_price               |-> r.base_price,
     uniqueness_adjustment    |-> r.uniqueness_adjustment,
     demand_adjustment        |-> r.demand_adjustment,
     factor_adjustment        |-> r.factor_adjustment,
     adjusted_price           |-> r.adjusted_price,
     profit_amount            |-> PyRound(r.profit_amount, 2),
     profit_margin_percentage |-> PyRound(r.profit_margin_percentage, 2),
     markup_percentage        |-> PyRound(r.markup_percentage, 2),
     final_price              |-> PyRound(r.final_price, 2),
     economy_price            |-> r.economy_price,
     premium_price            |-> PyRound(r.premium_price, 2),
     selling_price            |-> r.selling_price]

\* lines 73-96: the rounding of six of the figures, and the returned dictionary
RoundedResult(r) ==
    [material_cost            |-> r.material_cost,
     labor_cost               |-> r.labor_cost,
     base_price               |-> r.base_price,
     uniqueness_adjustment    |-> r.uniqueness_adjustment,
     demand_adjustment        |-> r.demand_adjustment,
     factor_adjustment        |-> r.factor_adjustment,
     adjusted_price           |-> r.adjusted_price,
     profit_amount            |-> PyRound(r.profit_amount, 2),
     profit_margin_percentage |-> PyRound(r.profit_margin_percentage, 2),
     markup_percentage        |-> PyRound(r.markup_percentage, 2),
     final_price              |-> PyRound(r.final_price, 2),
     economy_price            |-> PyRound(r.economy_price, 2),
     premium_price            |-> PyRound(r.premium_price, 2),
     selling_price            |-> r.selling_price]

SumOfAdjustments(r) == AdjustedPrice(r, FAdd(r.uniqueness_adjustment, r.demand_adjustment))

\* lines 69-96, reached unless a percentage raised
Finished(w, r) == IF Raised(r) THEN r ELSE RoundedResult(AlternatePrices(w, r))

\* calculate_price that charges the material once more for every earlier call
calculate_price_counting(w, material_cost, hours_worked, labor_rate, uniqueness, demand, selling_price) ==
    Finished(w, Percentages(ProfitAmount(FinalPrice(w,
        SumOfAdjustments(FactorAdjustments(w,
            BasePrice(FAdd(material_cost, FromInt(Len(runs))), hours_worked, labor_rate,
                      FMul(hours_worked, labor_rate)),
            uniqueness, demand)),
        selling_price))))

\* PricingCalculator.calculate_price with the weights w
calculate_price(w, material_cost, hours_worked, labor_rate, uniqueness, demand, selling_price) ==
    Finished(w, Percentages(ProfitAmount(FinalPrice(w,
        SumOfAdjustments(FactorAdjustments(w,
            BasePrice(material_cost, hours_worked, labor_rate, FMul(hours_worked, labor_rate)),
            uniqueness, demand)),
        selling_price))))

(***************************************************************************)
(* The calculator on its own: one calculate_price call per behaviour, its  *)
(* arguments drawn from range-checked values (costs >= 0, ratings in       *)
(* [1, 10], selling price absent or >= 0).                                  *)
(***************************************************************************)
MaterialCosts == {FZero, Dec(50, 1), Dec(1001, 2)}
HoursWorked   == {FZero, Dec(20, 1)}
LaborRates    == {Dec(150, 1)}
Ratings       == {Dec(10, 1), Dec(50, 1), Dec(60, 1), Dec(70, 1), Dec(100, 1)}
SellingPrices == {None, FZero, Dec(5, 0), Dec(1051, 2), Dec(12345, 3), Dec(50, 0)}

CalcArgs ==
    [material_cost : MaterialCosts, hours_worked : HoursWorked, labor_rate : LaborRates,
     uniqueness : Ratings, demand : Ratings, selling_price : SellingPrices]

CalcInit ==
    /\ weights = DefaultWeights
    /\ call \in CalcArgs
    /\ result = None
    /\ AppIdle

\* the call returns
Calculate ==
    /\ result = None
    /\ result' = calculate_price(weights, call.material_cost, call.hours_worked, call.labor_rate,
                                 call.uniqueness, call.demand, call.selling_price)
    /\ UNCHANGED <<weights, runs, call>>
    /\ UNCHANGED appVars
    /\ UNCHANGED <<chatVars, configVars>>

CalcNext == Calculate

SpecCalc == CalcInit /\ [][CalcNext]_vars

\* UpdateWeights where an omitted argument puts the default weight back
update_weights_replace(w, uniqueness_weight, demand_weight, economy_modifier, premium_modifier, suggested_price_multiplier) ==
    [uniqueness_weight          |-> IF uniqueness_weight # None THEN uniqueness_weight
                                    ELSE DefaultWeights.uniqueness_weight,
     demand_weight              |-> IF demand_weight # None THEN demand_weight
                                    ELSE DefaultWeights.demand_weight,
     economy_modifier           |-> IF economy_modifier # None THEN economy_modifier
                                    ELSE DefaultWeights.economy_modifier,
     premium_modifier           |-> IF premium_modifier # None THEN premium_modifier
                                    ELSE DefaultWeights.premium_modifier,
     suggested_price_multiplier |-> IF suggested_price_multiplier # None
                                    THEN suggested_price_multiplier
                                    ELSE DefaultWeights.suggested_price_multiplier]

\* lines 98-111: the weights after PricingCalculator.update_weights
update_weights(w, uniqueness_weight, demand_weight, economy_modifier, premium_modifier, suggested_price_multiplier) ==
    [uniqueness_weight          |-> IF uniqueness_weight # None THEN uniqueness_weight
                                    ELSE w.uniqueness_weight,
     demand_weight              |-> IF demand_weight # None THEN demand_weight
                                    ELSE w.demand_weight,
     economy_modifier           |-> IF economy_modifier # None THEN economy_modifier
                                    ELSE w.economy_modifier,
     premium_modifier           |-> IF premium_modifier # None THEN premium_modifier
                                    ELSE w.premium_modifier,
     suggested_price_multiplier |-> IF suggested_price_multiplier # None
                                    THEN suggested_price_multiplier
                                    ELSE w.suggested_price_multiplier]

(***************************************************************************)
(* The calculator object through a sequence of at most MaxCalls calls of   *)
(* update_weights and calculate_price, in any order.                       *)
(***************************************************************************)
MaxCalls == 3

\* the keyword arguments of update_weights, None for one left out: none at
\* all, one weight, a weight of 0, all five, a negative weight, a multiplier 0
NoWeights ==
    [uniqueness_weight |-> None, demand_weight |-> None, economy_modifier |-> None,
     premium_modifier |-> None, suggested_price_multiplier |-> None]

WeightArgs ==
    {NoWeights,
     [NoWeights EXCEPT !.demand_weight = Dec(1, 1)],
     [NoWeights EXCEPT !.uniqueness_weight = FZero],
     [uniqueness_weight |-> Dec(1, 1), demand_weight |-> Dec(8, 2),
      economy_modifier |-> Dec(5, 1), premium_modifier |-> Dec(15, 1),
      suggested_price_multiplier |-> Dec(30, 1)],
     [NoWeights EXCEPT !.uniqueness_weight = FNeg(Dec(5, 1))],
     [NoWeights EXCEPT !.suggested_price_multiplier = FZero]}

\* the arguments of calculate_price, range-checked
EngineArgs ==
    {[material_cost |-> Dec(50, 1), hours_worked |-> Dec(20, 1), labor_rate |-> Dec(150, 1),
      uniqueness |-> Dec(50, 1), demand |-> Dec(50, 1), selling_price |-> None],
     [material_cost |-> Dec(1001, 2), hours_worked |-> Dec(15, 1), labor_rate |-> Dec(125, 1),
      uniqueness |-> Dec(50, 1), demand |-> Dec(50, 1), selling_price |-> Dec(500, 1)],
     [material_cost |-> Dec(50, 1), hours_worked |-> Dec(20, 1), labor_rate |-> Dec(150, 1),
      uniqueness |-> Dec(60, 1), demand |-> Dec(70, 1), selling_price |-> FZero],
     [material_cost |-> Dec(50, 1), hours_worked |-> Dec(20, 1), labor_rate |-> Dec(150, 1),
      uniqueness |-> Dec(60, 1), demand |-> Dec(70, 1), selling_price |-> None],
     [material_cost |-> FZero, hours_worked |-> FZero, labor_rate |-> Dec(150, 1),
      uniqueness |-> Dec(10, 1), demand |-> Dec(100, 1), selling_price |-> None],
     [material_cost |-> Dec(50, 1), hours_worked |-> Dec(20, 1), labor_rate |-> Dec(150, 1),
      uniqueness |-> Dec(100, 1), demand |-> Dec(10, 1), selling_price |-> Dec(4, 3)]}

EngineInit ==
    /\ weights = DefaultWeights
    /\ call = None
    /\ result = None
    /\ AppIdle

\* one call on the calculator, as the history records it
Made(op, args, before, after, returned) ==
    [op |-> op, args |-> args, before |-> before, after |-> after, returned |-> returned]

\* the state after a call that left the weights after and returned returned
Called(op, args, after, returned) ==
    /\ Len(runs) < MaxCalls
    /\ weights' = after
    /\ call' = args
    /\ result' = returned
    /\ runs' = Append(runs, Made(op, args, weights, after, returned))
    /\ UNCHANGED appVars
    /\ UNCHANGED <<chatVars, configVars>>

UpdateWeights(a) ==
    Called("update_weights", a,
           update_weights(weights, a.uniqueness_weight, a.demand_weight, a.economy_modifier,
                          a.premium_modifier, a.suggested_price_multiplier),
           None)

CalculatePrice(a) ==
    Called("calculate_price", a, weights,
           calculate_price(weights, a.material_cost, a.hours_worked, a.labor_rate,
                           a.uniqueness, a.demand, a.selling_price))

EngineNext ==
    \/ \E a \in WeightArgs : UpdateWeights(a)
    \/ \E a \in EngineArgs : CalculatePrice(a)

SpecEngine == EngineInit /\ [][EngineNext]_vars

(***************************************************************************)
(* src/utils/validation.py                                                 *)
(*                                                                         *)
(* Python values: a float is a record [s, m, e], an int is [int |-> n], a  *)
(* text that is not a number is [str |-> t], None is None.  An outcome is  *)
(* the returned value or a raised exception [raised, message].             *)
(***************************************************************************)
IsFloat(v) == DOMAIN v = {"s", "m", "e"}
IsInt(v) == DOMAIN v = {"int"}

\* raise ValueError(f"{field_name}...")
ValueError(message) == [raised |-> "ValueError", message |-> message]

IntToFloat(n) == IF n < 0 THEN FNeg(FromInt(0 - n)) ELSE FromInt(n)

\* the float a number denotes in a comparison or after float()
Num(v) == IF IsInt(v) THEN IntToFloat(v.int) ELSE v

\* line 23: float(value)
float(value) ==
    IF IsFloat(value) \/ IsInt(value) THEN Num(value)
    ELSE IF value = None THEN [raised |-> "TypeError", message |-> <<>>]
    ELSE [raised |-> "ValueError", message |-> <<>>]

\* line 55: int(value)
int(value) ==
    IF IsFloat(value) THEN [int |-> PyInt(value)]
    ELSE IF IsInt(value) THEN value
    ELSE IF value = None THEN [raised |-> "TypeError", message |-> <<>>]
    ELSE [raised |-> "ValueError", message |-> <<>>]

\* lines 26-32 and 58-64: the bound checks on the converted value
CheckBounds(converted, min_value, max_value, field_name) ==
    IF Raised(converted) THEN converted
    ELSE IF min_value # None /\ FLt(Num(converted), Num(min_value))
         THEN ValueError(<<field_name, " must be at least ", min_value>>)
    ELSE IF max_value # None /\ FGt(Num(converted), Num(max_value))
         THEN ValueError(<<field_name, " cannot exceed ", max_value>>)
    ELSE converted

\* lines 34-35 and 66-67: except (ValueError, TypeError) around the whole body
Except(outcome, message) ==
    IF Raised(outcome) /\ outcome.raised \in {"ValueError", "TypeError"}
    THEN ValueError(message)
    ELSE outcome

validate_numeric_input(value, min_value, max_value, field_name) ==
    Except(CheckBounds(float(value), min_value, max_value, field_name),
           <<field_name, " must be a valid number">>)

validate_integer_input(value, min_value, max_value, field_name) ==
    Except(CheckBounds(int(value), min_value, max_value, field_name),
           <<field_name, " must be a valid integer">>)

\* lines 104-108: the optional selling price
ValidatedSellingPrice(selling_price) ==
    IF selling_price # None
    THEN validate_numeric_input(selling_price, [int |-> 0], None, "Selling price")
    ELSE None

\* ValidatedDict that includes every selling price that was supplied
ValidatedDict_any_supplied(mc, hw, lr, u, d, sp) ==
    IF sp # None
    THEN [material_cost |-> mc, hours_worked |-> hw, labor_rate |-> lr,
          uniqueness |-> u, demand |-> d, selling_price |-> sp]
    ELSE [material_cost |-> mc, hours_worked |-> hw, labor_rate |-> lr,
          uniqueness |-> u, demand |-> d]

\* lines 111-123: the dictionary of validated values
ValidatedDict(mc, hw, lr, u, d, sp) ==
    IF sp # None /\ FGt(sp, FZero)
    THEN [material_cost |-> mc, hours_worked |-> hw, labor_rate |-> lr,
          uniqueness |-> u, demand |-> d, selling_price |-> sp]
    ELSE [material_cost |-> mc, hours_worked |-> hw, labor_rate |-> lr,
          uniqueness |-> u, demand |-> d]

\* the six validations run in order; the first exception leaves the function
FirstRaised(mc, hw, lr, u, d, sp) ==
    IF Raised(mc) THEN mc
    ELSE IF Raised(hw) THEN hw
    ELSE IF Raised(lr) THEN lr
    ELSE IF Raised(u) THEN u
    ELSE IF Raised(d) THEN d
    ELSE IF Raised(sp) THEN sp
    ELSE ValidatedDict(mc, hw, lr, u, d, sp)

validate_pricing_inputs(material_cost, hours_worked, labor_rate, uniqueness, demand, selling_price) ==
    FirstRaised(validate_numeric_input(material_cost, [int |-> 0], None, "Material cost"),
                validate_numeric_input(hours_worked, [int |-> 0], None, "Hours worked"),
                validate_numeric_input(labor_rate, [int |-> 0], None, "Labor rate"),
                validate_integer_input(uniqueness, [int |-> 1], [int |-> 10],
                                       "Uniqueness rating"),
                validate_integer_input(demand, [int |-> 1], [int |-> 10], "Demand rating"),
                ValidatedSellingPrice(selling_price))

(***************************************************************************)
(* The validation layer on its own: one validate_pricing_inputs call per   *)
(* behaviour, on numbers in and out of range, a text and None.             *)
(***************************************************************************)
NotANumber == [str |-> "abc"]

RawCosts == {FNeg(Dec(1, 0)), FZero, Dec(100, 1), NotANumber}
RawHours == {FZero, Dec(20, 1)}
RawRates == {Dec(150, 1)}
RawRatings ==
    {FNeg(Dec(30, 1)), Dec(5, 1), Dec(10, 1), Dec(55, 1), Dec(100, 1), Dec(109, 1),
     Dec(110, 1), NotANumber}
RawSellingPrices == {None, FZero, Dec(250, 1), FNeg(Dec(1, 0))}

ValidArgs ==
    [material_cost : RawCosts, hours_worked : RawHours, labor_rate : RawRates,
     uniqueness : RawRatings, demand : RawRatings, selling_price : RawSellingPrices]

ValidInit ==
    /\ weights = DefaultWeights
    /\ call \in ValidArgs
    /\ result = None
    /\ AppIdle

\* the call returns or raises
Validate ==
    /\ result = None
    /\ result' = validate_pricing_inputs(call.material_cost, call.hours_worked,
                                         call.labor_rate, call.uniqueness, call.demand,
                                         call.selling_price)
    /\ UNCHANGED <<weights, runs, call>>
    /\ UNCHANGED appVars
    /\ UNCHANGED <<chatVars, configVars>>

ValidNext == Validate

SpecValid == ValidInit /\ [][ValidNext]_vars

(***************************************************************************)
(* validate_numeric_input on its own: one call per behaviour, on numbers,  *)
(* a text and None, with and without bounds.                               *)
(***************************************************************************)
NumericValues ==
    {FNeg(One), FZero, Dec(5, 1), Five, Ten, Dec(110, 1), Dec(1010, 1), [int |-> 3],
     [int |-> 200], NotANumber, None}
MinValues == {None, [int |-> 0], [int |-> 1]}
MaxValues == {None, [int |-> 10], [int |-> 100]}

NumericArgs == [value : NumericValues, min_value : MinValues, max_value : MaxValues]

NumericInit ==
    /\ weights = DefaultWeights
    /\ call \in NumericArgs
    /\ result = None
    /\ AppIdle

\* the call returns or raises
ValidateNumeric ==
    /\ result = None
    /\ result' = validate_numeric_input(call.value, call.min_value, call.max_value, "Value")
    /\ UNCHANGED <<weights, runs, call>>
    /\ UNCHANGED appVars
    /\ UNCHANGED <<chatVars, configVars>>

NumericNext == ValidateNumeric

SpecNumeric == NumericInit /\ [][NumericNext]_vars

(***************************************************************************)
(* The optional selling price: calculate_price and validate_pricing_inputs *)
(* called, at most MaxCalls times in all, on one set of costs and ratings  *)
(* with the selling price absent, 0 or 25.  runs records the calls.        *)
(***************************************************************************)
\* costs and ratings: the defaults, a piece with ratings of two decimals, a
\* piece that cost nothing and a negative material cost
CostsAndRatings ==
    {[material_cost |-> Dec(100, 1), hours_worked |-> Dec(20, 1), labor_rate |-> Dec(150, 1),
      uniqueness |-> Dec(50, 1), demand |-> Dec(50, 1), selling_price |-> None],
     [material_cost |-> Dec(1001, 2), hours_worked |-> Dec(15, 1), labor_rate |-> Dec(125, 1),
      uniqueness |-> Dec(746, 2), demand |-> Dec(80, 1), selling_price |-> None],
     [material_cost |-> FZero, hours_worked |-> FZero, labor_rate |-> Dec(150, 1),
      uniqueness |-> Dec(10, 1), demand |-> Dec(100, 1), selling_price |-> None],
     [material_cost |-> FNeg(One), hours_worked |-> Dec(20, 1), labor_rate |-> Dec(150, 1),
      uniqueness |-> Dec(60, 1), demand |-> Dec(70, 1), selling_price |-> None]}

\* the weights of a new calculator and weights set by update_weights
WeightChoices ==
    {DefaultWeights,
     update_weights(DefaultWeights, Dec(1, 1), Dec(8, 2), Dec(5, 1), Dec(15, 1), Dec(30, 1))}

OfferedPrices == {None, FZero, Dec(250, 1)}

AbsentInit ==
    /\ weights \in WeightChoices
    /\ call \in CostsAndRatings
    /\ result = None
    /\ AppIdle

CalculateWith(selling_price) ==
    Called("calculate_price", [call EXCEPT !.selling_price = selling_price], weights,
           calculate_price(weights, call.material_cost, call.hours_worked, call.labor_rate,
                           call.uniqueness, call.demand, selling_price))

ValidateWith(selling_price) ==
    Called("validate_pricing_inputs", [call EXCEPT !.selling_price = selling_price], weights,
           validate_pricing_inputs(call.material_cost, call.hours_worked, call.labor_rate,
                                   call.uniqueness, call.demand, selling_price))

AbsentNext ==
    \/ \E selling_price \in OfferedPrices : CalculateWith(selling_price)
    \/ \E selling_price \in OfferedPrices : ValidateWith(selling_price)

SpecAbsent == AbsentInit /\ [][AbsentNext]_vars

(***************************************************************************)
(* src/ui/input_frame.py                                                   *)
(*                                                                         *)
(* A tk.DoubleVar holds a float, or the text of its entry when that text   *)
(* is not a number ([str |-> t]); get() of such a variable raises          *)
(* TclError.  Each rating variable has a write trace that runs             *)
(* _sync_slider_from_entry; ttk.Scale.set runs the scale's command; and    *)
(* while a trace of a variable runs, writes to that variable run no trace. *)
(***************************************************************************)
TclError(text) == [raised |-> "TclError", message |-> <<"expected floating-point number but got ", text>>]

\* lines 18-25
default_values ==
    [material_cost |-> Dec(100, 1), hours_worked |-> Dec(20, 1), labor_rate |-> Dec(150, 1),
     uniqueness |-> [int |-> 5], demand |-> [int |-> 5], selling_price |-> FZero]

VarOf(which) == IF which = "uniqueness" THEN "uniqueness_var" ELSE "demand_var"
SliderOf(which) == IF which = "uniqueness" THEN "uniqueness_slider" ELSE "demand_slider"

\* round(value * 10) / 10 of lines 105, 113, 145, 153
Round10(value) == FDiv(PyRound(FMul(value, Ten), 0), Ten)

\* line 354: max(min_val, min(max_val, value))
PyMin(a, b) == IF FLt(b, a) THEN b ELSE a
PyMax(a, b) == IF FGt(b, a) THEN b ELSE a
Clamp(min_val, max_val, value) == PyMax(min_val, PyMin(max_val, value))

\* lines 112-115 run inside the trace of the variable: the write runs no trace
on_motion_in_trace(frame, which, value) == [frame EXCEPT ![VarOf(which)] = Round10(value)]

\* slider.set(value) at line 355: the scale takes the value and runs its command
slider_set_in_trace(frame, which, value) ==
    on_motion_in_trace([frame EXCEPT ![SliderOf(which)] = value], which, value)

\* lines 350-357
_sync_slider_from_entry(frame, which, min_val, max_val) ==
    IF IsFloat(frame[VarOf(which)])
    THEN slider_set_in_trace(frame, which, Clamp(min_val, max_val, frame[VarOf(which)]))
    ELSE frame

\* var.set(value) of a rating variable, with the trace of lines 99-100, 139-140
rating_var_set(frame, which, value) ==
    _sync_slider_from_entry([frame EXCEPT ![VarOf(which)] = value], which, One, Ten)

\* lines 112-115, 152-155: the scale's command, run for a drag or a set
on_motion(frame, which, value) == rating_var_set(frame, which, Round10(value))

\* slider.set(value) outside a trace
slider_set(frame, which, value) ==
    on_motion([frame EXCEPT ![SliderOf(which)] = value], which, value)

\* lines 103-107, 143-147, rounded being the rounded position of the slider
on_release(frame, which, rounded) ==
    rating_var_set(slider_set(frame, which, rounded), which, rounded)

\* lines 340-348: the command of the scale while it is built (no trace yet)
_validate_rating(value) == PyRound(value, 1)

\* lines 13-38 with the construction of the sliders at lines 87-89, 128-130
InputFrame__init__ ==
    [material_cost_var |-> default_values.material_cost,
     hours_worked_var  |-> default_values.hours_worked,
     labor_rate_var    |-> default_values.labor_rate,
     uniqueness_var    |-> _validate_rating(Num(default_values.uniqueness)),
     demand_var        |-> _validate_rating(Num(default_values.demand)),
     selling_price_var |-> default_values.selling_price,
     uniqueness_slider |-> Num(default_values.uniqueness),
     demand_slider     |-> Num(default_values.demand),
     recommended_values |-> None]

\* the six var.set calls of one scenario, reset or recommendation
SetAll(frame, v) ==
    rating_var_set(
        rating_var_set([frame EXCEPT !.material_cost_var = v.material_cost,
                                     !.hours_worked_var = v.hours_worked,
                                     !.labor_rate_var = v.labor_rate,
                                     !.selling_price_var = v.selling_price],
                       "uniqueness", v.uniqueness),
        "demand", v.demand)

\* lines 215-240: Simple Jewelry, Complex Art, Batch Item
Scenarios ==
    <<[material_cost |-> Dec(50, 1), hours_worked |-> Dec(20, 1), labor_rate |-> Dec(150, 1),
       uniqueness |-> Dec(60, 1), demand |-> Dec(70, 1), selling_price |-> FZero],
      [material_cost |-> Dec(250, 1), hours_worked |-> Dec(80, 1), labor_rate |-> Dec(200, 1),
       uniqueness |-> Dec(90, 1), demand |-> Dec(50, 1), selling_price |-> FZero],
      [material_cost |-> Dec(30, 1), hours_worked |-> Dec(5, 1), labor_rate |-> Dec(150, 1),
       uniqueness |-> Dec(40, 1), demand |-> Dec(80, 1), selling_price |-> FZero]>>

\* lines 249-256
DefaultsAsFloats ==
    [default_values EXCEPT !.uniqueness = Num(default_values.uniqueness),
                           !.demand = Num(default_values.demand)]

\* lines 263-271: the recommended values, selling_price 0.0 when the key is missing
RecommendedAsSet(recommended_values) ==
    IF "selling_price" \in DOMAIN recommended_values
    THEN recommended_values
    ELSE recommended_values @@ [selling_price |-> FZero]

\* line 281: a PricingRecommendation object has a __dict__, a dictionary has none
IsObject(recommendations) == "explanation" \in DOMAIN recommendations

\* lines 283-292: the dictionary made of an object
ObjectAsDict(recommendations) ==
    [material_cost |-> recommendations.material_cost,
     hours_worked  |-> recommendations.hours_worked,
     labor_rate    |-> recommendations.labor_rate,
     uniqueness    |-> recommendations.uniqueness,
     demand        |-> recommendations.demand,
     selling_price |-> recommendations.selling_price]

\* lines 281-295: what is stored
Stored(recommendations) ==
    IF IsObject(recommendations) THEN ObjectAsDict(recommendations) ELSE recommendations

\* set_recommendations that adds the new values to those it has
set_recommendations_merged(frame, recommendations) ==
    [frame EXCEPT !.recommended_values =
        IF frame.recommended_values = None THEN Stored(recommendations)
        ELSE Stored(recommendations) @@ frame.recommended_values]

\* lines 273-298
set_recommendations(frame, recommendations) ==
    [frame EXCEPT !.recommended_values = Stored(recommendations)]

\* lines 303-308: the first variable whose text is not a number, None if none
FirstNotANumber(frame) ==
    IF ~IsFloat(frame.material_cost_var) THEN frame.material_cost_var
    ELSE IF ~IsFloat(frame.hours_worked_var) THEN frame.hours_worked_var
    ELSE IF ~IsFloat(frame.labor_rate_var) THEN frame.labor_rate_var
    ELSE IF ~IsFloat(frame.uniqueness_var) THEN frame.uniqueness_var
    ELSE IF ~IsFloat(frame.demand_var) THEN frame.demand_var
    ELSE IF ~IsFloat(frame.selling_price_var) THEN frame.selling_price_var
    ELSE None

\* get_values without the check of the selling price
get_values_selling_unchecked(frame) ==
    IF FirstNotANumber(frame) # None THEN TclError(FirstNotANumber(frame))
    ELSE IF FLt(frame.material_cost_var, FZero)
         THEN ValueError("Material cost cannot be negative")
    ELSE IF FLt(frame.hours_worked_var, FZero)
         THEN ValueError("Hours worked cannot be negative")
    ELSE IF FLt(frame.labor_rate_var, FZero)
         THEN ValueError("Labor rate cannot be negative")
    ELSE [material_cost |-> frame.material_cost_var,
          hours_worked  |-> frame.hours_worked_var,
          labor_rate    |-> frame.labor_rate_var,
          uniqueness    |-> PyRound(frame.uniqueness_var, 1),
          demand        |-> PyRound(frame.demand_var, 1),
          selling_price |-> frame.selling_price_var]

\* lines 300-328
get_values(frame) ==
    IF FirstNotANumber(frame) # None THEN TclError(FirstNotANumber(frame))
    ELSE IF FLt(frame.material_cost_var, FZero)
         THEN ValueError("Material cost cannot be negative")
    ELSE IF FLt(frame.hours_worked_var, FZero)
         THEN ValueError("Hours worked cannot be negative")
    ELSE IF FLt(frame.labor_rate_var, FZero)
         THEN ValueError("Labor rate cannot be negative")
    ELSE IF FLt(frame.selling_price_var, FZero)
         THEN ValueError("Selling price cannot be negative")
    ELSE [material_cost |-> frame.material_cost_var,
          hours_worked  |-> frame.hours_worked_var,
          labor_rate    |-> frame.labor_rate_var,
          uniqueness    |-> PyRound(frame.uniqueness_var, 1),
          demand        |-> PyRound(frame.demand_var, 1),
          selling_price |-> frame.selling_price_var]

\* lines 330-338: the key validation of the rating entries
_validate_float_input(value) == value = [str |-> ""] \/ IsFloat(value)

(***************************************************************************)
(* src/ui/result_frame.py                                                  *)
(***************************************************************************)
\* f"{x:.2f}", f"{x:.1f}": the sign and the digits, as the integer they spell
Fmt(x, nd) ==
    [s |-> x.s, digits |-> BToInt(ScaledInt(x, BMul(x.m, BFromInt(10^nd)))), nd |-> nd]

\* lines 18-24 and the empty chart
ResultFrame__init__ ==
    [recommended_price_var |-> Fmt(FZero, 2), base_price_var |-> Fmt(FZero, 2),
     economy_price_var |-> Fmt(FZero, 2), premium_price_var |-> Fmt(FZero, 2),
     profit_amount_var |-> Fmt(FZero, 2), profit_margin_var |-> Fmt(FZero, 1),
     markup_percentage_var |-> Fmt(FZero, 1), chart |-> <<>>]

\* lines 196-202
Percent(r, x) == IF FEq(r.selling_price, FZero) THEN "N/A" ELSE Fmt(x, 1)

\* lines 187-205, the chart being the four values of lines 152-157
update_results(r) ==
    [recommended_price_var |-> Fmt(r.final_price, 2), base_price_var |-> Fmt(r.base_price, 2),
     economy_price_var |-> Fmt(r.economy_price, 2), premium_price_var |-> Fmt(r.premium_price, 2),
     profit_amount_var |-> Fmt(r.profit_amount, 2),
     profit_margin_var |-> Percent(r, r.profit_margin_percentage),
     markup_percentage_var |-> Percent(r, r.markup_percentage),
     chart |-> <<r.material_cost, r.labor_cost, r.factor_adjustment, r.profit_amount>>]

(***************************************************************************)
(* src/ui/app.py                                                           *)
(***************************************************************************)
showerror(title, message) == [icon |-> "error", title |-> title, message |-> message]
showinfo(title, message) == [icon |-> "info", title |-> title, message |-> message]

\* lines 290-296: the box for the exception that get_values raised
ErrorBox(e) ==
    IF e.raised = "ValueError" THEN showerror("Invalid Input", e.message)
    ELSE showerror("Error", <<"An error occurred: ", e.message>>)

\* lines 284-288: the engine is called and its results are displayed
Calculated(w, values, results) ==
    [call |-> values, result |-> results, result_frame |-> update_results(results),
     dialogs |-> <<>>]

\* lines 278-296, from the outcome of get_values
CalculateFrom(w, values, shown) ==
    IF Raised(values)
    THEN [call |-> None, result |-> None, result_frame |-> shown,
          dialogs |-> <<ErrorBox(values)>>]
    ELSE Calculated(w, values,
                    calculate_price(w, values.material_cost, values.hours_worked,
                                    values.labor_rate, values.uniqueness, values.demand,
                                    values.selling_price))

\* lines 87-94: the dictionary made of a recommendation
RecommendationDict(recommendations) ==
    [material_cost |-> recommendations.material_cost,
     hours_worked  |-> recommendations.hours_worked,
     labor_rate    |-> recommendations.labor_rate,
     uniqueness    |-> recommendations.uniqueness,
     demand        |-> recommendations.demand,
     selling_price |-> IF FGt(recommendations.selling_price, FZero)
                       THEN recommendations.selling_price ELSE FZero]

\* lines 258-271
ResetToRecommendations(frame) ==
    IF frame.recommended_values = None THEN frame
    ELSE SetAll(frame, RecommendedAsSet(frame.recommended_values))

\* lines 71-74: _clear_main_frame destroys the chat frame, if there is one; its
\* threads and callbacks stay
ChatFrameDestroyed ==
    /\ chat_frame' = None
    /\ UNCHANGED <<ai_available, configVars, conversation_history, threads, after_queue, started,
                   generated, displayed>>

\* an operation that calls no engine and shows no box
Quiet == call' = None /\ result' = None /\ dialogs' = <<>>

\* lines 109-178: the calculator screen is built anew (the "Use Calculator"
\* button of the welcome screen, "Switch to Calculator" of the chat screen)
_setup_ui ==
    /\ screen \in {"welcome", "chat"}
    /\ screen' = "calculator"
    /\ input_frame' = InputFrame__init__
    /\ result_frame' = ResultFrame__init__
    /\ typed' = NoTyped
    /\ Quiet
    /\ ChatFrameDestroyed
    /\ UNCHANGED <<weights, runs, accepted, edits>>

\* lines 54-69, the calculator's side: the chat screen replaces whatever is shown
ShowChatScreen ==
    /\ screen \in {"welcome", "calculator", "chat"}
    /\ screen' = "chat"
    /\ input_frame' = None
    /\ result_frame' = None
    /\ typed' = NoTyped
    /\ Quiet
    /\ UNCHANGED <<weights, runs, accepted, edits>>

\* lines 54-69 where the chat is reduced to the recommendation it hands over
ShowChatReduced ==
    /\ ShowChatScreen
    /\ UNCHANGED <<chatVars, configVars>>

_load_scenario(scenario_num) ==
    /\ screen = "calculator"
    /\ input_frame' = SetAll(input_frame, Scenarios[scenario_num])
    /\ typed' = NoTyped
    /\ Quiet
    /\ UNCHANGED <<weights, runs, screen, result_frame, accepted, edits>>
    /\ UNCHANGED <<chatVars, configVars>>

_reset_to_defaults ==
    /\ screen = "calculator"
    /\ input_frame' = SetAll(input_frame, DefaultsAsFloats)
    /\ typed' = NoTyped
    /\ Quiet
    /\ UNCHANGED <<weights, runs, screen, result_frame, accepted, edits>>
    /\ UNCHANGED <<chatVars, configVars>>

\* the button is enabled by set_recommendations (line 298)
_reset_to_recommendations ==
    /\ screen = "calculator"
    /\ input_frame.recommended_values # None
    /\ input_frame' = ResetToRecommendations(input_frame)
    /\ typed' = NoTyped
    /\ Quiet
    /\ UNCHANGED <<weights, runs, screen, result_frame, accepted, edits>>
    /\ UNCHANGED <<chatVars, configVars>>

\* the most entry and slider edits the user makes in a session
MaxEdits == 1

\* the user replaces the text of a cost or selling price entry
TypeCost(field, text) ==
    /\ screen = "calculator"
    /\ edits < MaxEdits
    /\ edits' = edits + 1
    /\ input_frame' = [input_frame EXCEPT ![field] = text]
    /\ Quiet
    /\ UNCHANGED <<weights, runs, screen, result_frame, typed, accepted>>
    /\ UNCHANGED <<chatVars, configVars>>

\* the user replaces the text of a rating entry: the key validation, then the
\* write of the variable with its trace
TypeRating(which, text) ==
    /\ screen = "calculator"
    /\ edits < MaxEdits
    /\ IF _validate_float_input(text)
       THEN /\ input_frame' = rating_var_set(input_frame, which, text)
            /\ typed' = [typed EXCEPT ![which] = text]
            /\ edits' = edits + 1
       ELSE UNCHANGED <<input_frame, typed, edits>>
    /\ Quiet
    /\ UNCHANGED <<weights, runs, screen, result_frame, accepted>>
    /\ UNCHANGED <<chatVars, configVars>>

\* the user drags a slider to a position
SliderMotion(which, value) ==
    /\ screen = "calculator"
    /\ edits < MaxEdits
    /\ edits' = edits + 1
    /\ input_frame' = slider_set(input_frame, which, value)
    /\ typed' = [typed EXCEPT ![which] = None]
    /\ Quiet
    /\ UNCHANGED <<weights, runs, screen, result_frame, accepted>>
    /\ UNCHANGED <<chatVars, configVars>>

\* the user releases the mouse button over a slider
SliderRelease(which) ==
    /\ screen = "calculator"
    /\ edits < MaxEdits
    /\ edits' = edits + 1
    /\ input_frame' = on_release(input_frame, which, Round10(input_frame[SliderOf(which)]))
    /\ typed' = [typed EXCEPT ![which] = None]
    /\ Quiet
    /\ UNCHANGED <<weights, runs, screen, result_frame, accepted>>
    /\ UNCHANGED <<chatVars, configVars>>

\* the four state changes of one run of lines 278-296
CalculateSets(c) ==
    /\ call' = c.call
    /\ result' = c.result
    /\ result_frame' = c.result_frame
    /\ dialogs' = c.dialogs

\* the "Calculate Price" button
_calculate_price ==
    /\ screen = "calculator"
    /\ CalculateSets(CalculateFrom(weights, get_values(input_frame), result_frame))
    /\ UNCHANGED <<weights, runs, screen, input_frame, typed, accepted, edits>>
    /\ UNCHANGED <<chatVars, configVars>>

\* lines 84-97: the new input frame holding the recommendation
AppliedFrame(recommendations) ==
    ResetToRecommendations(set_recommendations(InputFrame__init__,
                                               RecommendationDict(recommendations)))

\* lines 100-107: the calculation, then the box that names the source
AppliedSets(c, recommendations) ==
    /\ call' = c.call
    /\ result' = c.result
    /\ result_frame' = c.result_frame
    /\ dialogs' = Append(c.dialogs, showinfo("AI Recommendations Applied",
                                             recommendations.explanation))

\* lines 76-107: the "Apply Recommendations" button of the chat screen
_apply_recommendations(recommendations) ==
    /\ screen = "chat"
    /\ screen' = "calculator"
    /\ input_frame' = AppliedFrame(recommendations)
    /\ AppliedSets(CalculateFrom(weights, get_values(input_frame'), ResultFrame__init__),
                   recommendations)
    /\ typed' = NoTyped
    /\ accepted' = RecommendationDict(recommendations)
    /\ ChatFrameDestroyed
    /\ UNCHANGED <<weights, runs, edits>>

\* DEFAULT_PRICING_PARAMETERS with one hour of work
DEFAULT_PRICING_PARAMETERS_one_hour ==
    [material_cost |-> Dec(100, 1), hours_worked |-> Dec(10, 1), labor_rate |-> Dec(150, 1),
     uniqueness |-> Dec(50, 1), demand |-> Dec(50, 1), selling_price |-> FZero]

(***************************************************************************)
(* src/ai/config.py, src/ai/models.py, src/ai/client.py                    *)
(***************************************************************************)
\* config.py lines 38-45
DEFAULT_PRICING_PARAMETERS ==
    [material_cost |-> Dec(100, 1), hours_worked |-> Dec(20, 1), labor_rate |-> Dec(150, 1),
     uniqueness |-> Dec(50, 1), demand |-> Dec(50, 1), selling_price |-> FZero]

IsNumber(v) == IsFloat(v) \/ IsInt(v)

\* a JSON string, given by its characters
IsChars(v) == DOMAIN v = {"chars"}

DigitValue ==
    ("0" :> 0) @@ ("1" :> 1) @@ ("2" :> 2) @@ ("3" :> 3) @@ ("4" :> 4) @@
    ("5" :> 5) @@ ("6" :> 6) @@ ("7" :> 7) @@ ("8" :> 8) @@ ("9" :> 9)

IsDigits(c) == c # <<>> /\ \A i \in DOMAIN c : c[i] \in DOMAIN DigitValue

RECURSIVE IntOfDigits(_)
IntOfDigits(c) ==
    IF c = <<>> THEN 0
    ELSE 10 * IntOfDigits(SubSeq(c, 1, Len(c) - 1)) + DigitValue[c[Len(c)]]

\* the digits before and after the point at position dot (0: no point)
DecimalOf(c, dot) ==
    IF dot = 0
    THEN IF IsDigits(c) THEN FromInt(IntOfDigits(c)) ELSE Nothing
    ELSE IF IsDigits(SubSeq(c, 1, dot - 1)) /\ IsDigits(SubSeq(c, dot + 1, Len(c)))
         THEN Dec(IntOfDigits(SubSeq(c, 1, dot - 1) \o SubSeq(c, dot + 1, Len(c))), Len(c) - dot)
         ELSE Nothing

FirstPoint(c) == IF \E i \in DOMAIN c : c[i] = "." THEN CHOOSE i \in DOMAIN c : c[i] = "." /\ \A j \in 1..(i - 1) : c[j] # "." ELSE 0

Negated(x) == IF x = Nothing THEN Nothing ELSE FNeg(x)

\* pydantic, lax mode: the float a string of digits, with an optional sign and
\* fraction, is read as; Nothing when the string is no number
str_as_float(c) ==
    IF c # <<>> /\ c[1] = "-" THEN Negated(DecimalOf(Tail(c), FirstPoint(Tail(c))))
    ELSE DecimalOf(c, FirstPoint(c))

\* models.py, a float field: pydantic validates in lax mode, where a number is
\* taken as it is and a string that reads as a number is converted; Nothing
\* when the validation fails
to_float(v) ==
    IF IsNumber(v) THEN Num(v)
    ELSE IF IsChars(v) THEN str_as_float(v.chars)
    ELSE Nothing

\* models.py: Field(ge=0)
NonNegativeNumber(v) == to_float(v) # Nothing /\ FGe(to_float(v), FZero)

\* models.py: confloat(ge=1, le=10)
RatingNumber(v) == to_float(v) # Nothing /\ FGe(to_float(v), One) /\ FLe(to_float(v), Ten)

\* models.py lines 45-49: round(v, 1), run on a value that passed confloat
round_to_one_decimal(v) == PyRound(v, 1)

\* the object of models.py lines 8-49
Constructed(material_cost, hours_worked, labor_rate, uniqueness, demand, selling_price, explanation) ==
    [material_cost |-> to_float(material_cost),
     hours_worked  |-> to_float(hours_worked),
     labor_rate    |-> to_float(labor_rate),
     uniqueness    |-> round_to_one_decimal(to_float(uniqueness)),
     demand        |-> round_to_one_decimal(to_float(demand)),
     selling_price |-> to_float(selling_price),
     explanation   |-> explanation]

\* PricingRecommendation without the ge and le constraints of its fields
PricingRecommendation_unconstrained(material_cost, hours_worked, labor_rate, uniqueness, demand, selling_price, explanation) ==
    IF \A v \in {material_cost, hours_worked, labor_rate, uniqueness, demand, selling_price} : to_float(v) # Nothing
    THEN Constructed(material_cost, hours_worked, labor_rate, uniqueness, demand, selling_price, explanation)
    ELSE [raised |-> "ValidationError", message |-> <<>>]

\* models.py lines 8-49: the object constructed, or the ValidationError raised
PricingRecommendation(material_cost, hours_worked, labor_rate, uniqueness, demand, selling_price, explanation) ==
    IF /\ NonNegativeNumber(material_cost)
       /\ NonNegativeNumber(hours_worked)
       /\ NonNegativeNumber(labor_rate)
       /\ RatingNumber(uniqueness)
       /\ RatingNumber(demand)
       /\ NonNegativeNumber(selling_price)
    THEN Constructed(material_cost, hours_worked, labor_rate, uniqueness, demand, selling_price, explanation)
    ELSE [raised |-> "ValidationError", message |-> <<>>]

\* client.py lines 60-62, from the two attributes set by __init__
is_available(client, api_key) == client # None /\ api_key # None

\* Python's truth value of an Optional[str]
Truthy(response) == response # None /\ response # [str |-> ""]

\* client.py lines 81-95: the content of the completion, None when the client
\* is not available or the request raised
chat_completion(available, outcome) ==
    IF ~available THEN None
    ELSE IF Raised(outcome) THEN None
    ELSE outcome

RequiredKeys == {"material_cost", "hours_worked", "labor_rate", "uniqueness", "demand", "explanation"}

\* client.py lines 203-207 with lines 194-201: the keyword arguments, the
\* selling price left to the default 0 of the model when it is not positive
FromData(data, selling_price) ==
    PricingRecommendation(data.material_cost, data.hours_worked, data.labor_rate,
                          data.uniqueness, data.demand, selling_price, data.explanation)

\* client.py lines 190-217: KeyError, TypeError and ValidationError all end in None
Parsed(r) == IF Raised(r) THEN None ELSE r

\* ParseData where a selling price in the answer is passed on whatever it is
ParseData_as_given(data) ==
    IF ~(RequiredKeys \subseteq DOMAIN data) THEN None
    ELSE IF "selling_price" \notin DOMAIN data THEN Parsed(FromData(data, [int |-> 0]))
    ELSE Parsed(FromData(data, data.selling_price))

ParseData(data) ==
    IF ~(RequiredKeys \subseteq DOMAIN data) THEN None
    ELSE IF "selling_price" \notin DOMAIN data THEN Parsed(FromData(data, [int |-> 0]))
    ELSE IF ~IsNumber(data.selling_price) THEN None
    ELSE IF FGt(Num(data.selling_price), FZero) THEN Parsed(FromData(data, data.selling_price))
    ELSE Parsed(FromData(data, [int |-> 0]))

\* client.py lines 97-217: answer is what the completion request did: it raised,
\* or returned content that is no JSON (json |-> None) or a JSON object
get_pricing_recommendation(available, answer) ==
    IF ~available THEN None
    ELSE IF Raised(answer) THEN None
    ELSE IF answer.json = None THEN None
    ELSE ParseData(answer.json)

(***************************************************************************)
(* src/ai/chat_handler.py                                                  *)
(***************************************************************************)
\* lines 30-34
_initialize_conversation == <<[role |-> "system", content |-> [str |-> "PRICING_ADVISOR_PROMPT"]]>>

\* line 47
WithUser(history, user_message) == Append(history, [role |-> "user", content |-> user_message])

\* WithAssistant that files the reply under the role system
WithAssistant_as_system(history, response) ==
    IF Truthy(response) THEN Append(history, [role |-> "system", content |-> response])
    ELSE history

\* WithAssistant that takes the user message back when there is no reply
WithAssistant_rolled_back(history, response) ==
    IF Truthy(response) THEN Append(history, [role |-> "assistant", content |-> response])
    ELSE SubSeq(history, 1, Len(history) - 1)

\* lines 52-58
WithAssistant(history, response) ==
    IF Truthy(response) THEN Append(history, [role |-> "assistant", content |-> response])
    ELSE history

\* lines 52-58: the value send_message returns
send_message_returns(response) == IF Truthy(response) THEN response ELSE None

\* EnoughHistory that counts user and assistant messages only
EnoughHistory_without_system(history) ==
    ~(Cardinality({i \in DOMAIN history : history[i].role \in {"user", "assistant"}}) < 3)

\* line 68
EnoughHistory(history) == ~(Len(history) < 3)

(***************************************************************************)
(* src/ui/chat_frame.py                                                    *)
(***************************************************************************)
Message(sender_type, message) == [sender |-> sender_type, message |-> message, summary |-> None]

\* lines 133-152
_add_message(frame, sender_type, message) ==
    [frame EXCEPT !.chat_history = Append(@, Message(sender_type, message))]

\* lines 20-42, 44-108 and 110-118: the frame as the constructor leaves it; the
\* thread it starts and the 10 second timer (timer) are in the state as well
ChatFrame__init__(id) ==
    [id |-> id,
     waiting_for_response |-> FALSE,
     chat_history |-> <<Message("system", [str |-> "Starting conversation with AI assistant..."])>>,
     send_button |-> "normal",
     message_input |-> "normal",
     get_recommendations_button |-> "disabled",
     apply_button |-> None,
     timer |-> TRUE]

\* line 122
InitialPrompt == [str |-> "Hello! I'm looking for help with pricing a handmade item."]

\* lines 125-131: the callback the greeting thread hands to after(0, ...)
GreetingCallback(response) ==
    IF Truthy(response)
    THEN [callback |-> "_add_message", args |-> <<"assistant", response>>]
    ELSE [callback |-> "_add_message",
          args |-> <<"system", [str |-> "AI assistant is not available. You can still use the calculator directly."]>>]

\* line 187
ResponseCallback(response) == [callback |-> "_handle_response", args |-> <<response>>]

\* line 156: str.strip()
Strip(text) == IF text.str \in {"", " ", "  "} THEN [str |-> ""] ELSE text

\* lines 160-172
MessageSent(frame, user_message) ==
    [frame EXCEPT !.chat_history = @ \o <<Message("user", user_message),
                                          Message("system", [str |-> "AI is typing..."])>>,
                  !.waiting_for_response = TRUE,
                  !.send_button = "disabled",
                  !.message_input = "disabled"]

\* lines 197-199: delete("end-3l", "end") takes the last message off the text
\* when that is a one-line message, and the explanation line off a summary
DeleteTail(chat_history) ==
    IF chat_history = <<>> THEN chat_history
    ELSE IF chat_history[Len(chat_history)].summary = None
    THEN SubSeq(chat_history, 1, Len(chat_history) - 1)
    ELSE [chat_history EXCEPT ![Len(chat_history)].summary.explanation = ""]

\* lines 201-204
ResponseMessage(response) ==
    IF Truthy(response) THEN Message("assistant", response)
    ELSE Message("system", [str |-> "No response from AI. Please try again or use the calculator directly."])

\* the handler without lines 206-209: the reply is shown and the chat stays locked
_handle_response_stays_locked(frame, response) ==
    [frame EXCEPT !.chat_history = Append(DeleteTail(@), ResponseMessage(response)),
                  !.get_recommendations_button = "normal"]

\* lines 189-213
_handle_response(frame, response) ==
    [frame EXCEPT !.chat_history = Append(DeleteTail(@), ResponseMessage(response)),
                  !.waiting_for_response = FALSE,
                  !.send_button = "normal",
                  !.message_input = "normal",
                  !.get_recommendations_button = "normal"]

\* lines 217-222
RecommendationsRequested(frame) ==
    [frame EXCEPT !.chat_history = Append(@, Message("system", [str |-> "Generating pricing recommendations based on our conversation..."])),
                  !.get_recommendations_button = "disabled",
                  !.send_button = "disabled",
                  !.message_input = "disabled"]

\* lines 241-242
DefaultExplanation == "These are default recommendations since the AI is not available. In a real scenario, these would be generated based on our conversation."

\* lines 234-243
Fallback ==
    PricingRecommendation(DEFAULT_PRICING_PARAMETERS.material_cost,
                          DEFAULT_PRICING_PARAMETERS.hours_worked,
                          DEFAULT_PRICING_PARAMETERS.labor_rate,
                          DEFAULT_PRICING_PARAMETERS.uniqueness,
                          DEFAULT_PRICING_PARAMETERS.demand,
                          DEFAULT_PRICING_PARAMETERS.selling_price,
                          DefaultExplanation)

\* line 232
UseFallback_whenever_none(recommendations, available) == recommendations = None

UseFallback(recommendations, available) == recommendations = None /\ ~available

\* lines 232-243: what the thread hands over
HandedOver(recommendations, available) ==
    IF UseFallback(recommendations, available) THEN Fallback ELSE recommendations

FallbackNotice == [str |-> "Using default recommendations since the AI is not available. Enter your OpenAI API key in the .env file to enable AI features."]

\* lines 250-251 alone
GenerateCallbacks_unannounced(recommendations, available) ==
    <<[callback |-> "_display_recommendations",
       args |-> <<HandedOver(recommendations, available)>>]>>

\* lines 246-251: the callbacks the thread hands to after(0, ...), in order
GenerateCallbacks(recommendations, available) ==
    IF UseFallback(recommendations, available)
    THEN <<[callback |-> "_add_message", args |-> <<"system", FallbackNotice>>],
           [callback |-> "_display_recommendations", args |-> <<Fallback>>]>>
    ELSE <<[callback |-> "_display_recommendations", args |-> <<recommendations>>]>>

\* lines 262-271
Summary(recommendations) ==
    [material_cost |-> Fmt(recommendations.material_cost, 2),
     hours_worked  |-> Fmt(recommendations.hours_worked, 1),
     labor_rate    |-> Fmt(recommendations.labor_rate, 2),
     uniqueness    |-> Fmt(recommendations.uniqueness, 1),
     demand        |-> Fmt(recommendations.demand, 1),
     selling_price |-> IF FEq(recommendations.selling_price, FZero) THEN "Auto-calculate"
                       ELSE Fmt(recommendations.selling_price, 2),
     explanation   |-> recommendations.explanation]

CouldNotGenerate == [str |-> "Could not generate recommendations. You can still use the calculator directly."]

\* lines 253-303
_display_recommendations(frame, recommendations) ==
    IF recommendations # None
    THEN [frame EXCEPT !.chat_history = Append(@, [sender |-> "assistant",
                                                   message |-> [str |-> "Based on our conversation, here are my recommendations:"],
                                                   summary |-> Summary(recommendations)]),
                       !.apply_button = recommendations,
                       !.get_recommendations_button = "normal",
                       !.send_button = "normal",
                       !.message_input = "normal"]
    ELSE [frame EXCEPT !.chat_history = Append(@, Message("system", CouldNotGenerate)),
                       !.get_recommendations_button = "normal",
                       !.send_button = "normal",
                       !.message_input = "normal"]

\* line 118: the timer callback
EnableRecommendations(frame) ==
    [frame EXCEPT !.get_recommendations_button = "normal", !.timer = FALSE]

\* the frame after a callback given to after(0, ...) ran
Callback(frame, cb) ==
    IF cb.callback = "_add_message" THEN _add_message(frame, cb.args[1], cb.args[2])
    ELSE IF cb.callback = "_handle_response" THEN _handle_response(frame, cb.args[1])
    ELSE _display_recommendations(frame, cb.args[1])

(***************************************************************************)
(* The application: the calculator screen in full, the chat screen reduced *)
(* to the recommendation it hands over.  The user makes at most MaxEdits   *)
(* entry and slider edits.                                                 *)
(***************************************************************************)
\* PricingRecommendation objects: the fallback of ChatFrame and an answer
Recommendations ==
    {Fallback,
     [material_cost |-> Dec(125, 1), hours_worked |-> Dec(30, 1), labor_rate |-> Dec(200, 1),
      uniqueness |-> Dec(75, 1), demand |-> Dec(80, 1), selling_price |-> Dec(450, 1),
      explanation |-> "priced for a craft fair"]}

\* what the user types: a field and the text put into it
CostEdits ==
    {<<"material_cost_var", FNeg(One)>>, <<"hours_worked_var", FNeg(One)>>,
     <<"labor_rate_var", FNeg(One)>>, <<"selling_price_var", FNeg(One)>>,
     <<"material_cost_var", [str |-> "abc"]>>}
RatingEdits ==
    {<<"uniqueness", Dec(150, 1)>>, <<"uniqueness", [str |-> ""]>>,
     <<"uniqueness", [str |-> "abc"]>>, <<"demand", Dec(5, 1)>>}
SliderPositions == {Dec(723, 2)}
Sliders == {"uniqueness", "demand"}

AppInit ==
    /\ weights = DefaultWeights
    /\ call = None
    /\ result = None
    /\ screen = "welcome"
    /\ input_frame = None
    /\ result_frame = None
    /\ dialogs = <<>>
    /\ typed = NoTyped
    /\ accepted = None
    /\ edits = 0
    /\ runs = <<>>
    /\ ChatIdle

AppNext ==
    \/ _setup_ui
    \/ ShowChatReduced
    \/ \E scenario_num \in 1..3 : _load_scenario(scenario_num)
    \/ _reset_to_defaults
    \/ _reset_to_recommendations
    \/ \E e \in CostEdits : TypeCost(e[1], e[2])
    \/ \E e \in RatingEdits : TypeRating(e[1], e[2])
    \/ \E which \in Sliders, value \in SliderPositions : SliderMotion(which, value)
    \/ \E which \in Sliders : SliderRelease(which)
    \/ _calculate_price
    \/ \E recommendations \in Recommendations : _apply_recommendations(recommendations)

SpecApp == AppInit /\ [][AppNext]_vars

(***************************************************************************)
(* The input frame as an object: set_recommendations called on the frame   *)
(* of the calculator screen, at most MaxSets times, between resets and      *)
(* scenarios.  runs records the calls.                                     *)
(***************************************************************************)
MaxSets == 3

\* the arguments of set_recommendations: two PricingRecommendation objects, the
\* dictionary made of one of them and a dictionary without a selling price
RecommendationArgs ==
    Recommendations \cup
    {[material_cost |-> Dec(125, 1), hours_worked |-> Dec(30, 1), labor_rate |-> Dec(200, 1),
      uniqueness |-> Dec(75, 1), demand |-> Dec(80, 1), selling_price |-> Dec(450, 1)],
     [material_cost |-> Dec(30, 1), hours_worked |-> Dec(10, 1), labor_rate |-> Dec(120, 1),
      uniqueness |-> Dec(25, 1), demand |-> Dec(90, 1)]}

\* input_frame.py lines 273-298 called on the frame of the calculator screen
SetRecommendations(recommendations) ==
    /\ screen = "calculator"
    /\ Len(runs) < MaxSets
    /\ input_frame' = set_recommendations(input_frame, recommendations)
    /\ runs' = Append(runs, Made("set_recommendations", recommendations,
                                input_frame.recommended_values,
                                input_frame'.recommended_values, None))
    /\ UNCHANGED <<weights, call, result, screen, result_frame, dialogs, typed, accepted, edits>>
    /\ UNCHANGED <<chatVars, configVars>>

FrameNext ==
    \/ _setup_ui
    \/ \E scenario_num \in 1..3 : _load_scenario(scenario_num)
    \/ _reset_to_defaults
    \/ _reset_to_recommendations
    \/ \E recommendations \in RecommendationArgs : SetRecommendations(recommendations)

SpecFrame == AppInit /\ [][FrameNext]_vars

(***************************************************************************)
(* The chat: the chat screen in full with its background threads and the   *)
(* callbacks they hand to the main loop; of the calculator screen only the *)
(* switch to it and back.  At most MaxFrames chat frames are opened and    *)
(* MaxThreads threads started.                                             *)
(***************************************************************************)
MaxFrames == 2
MaxThreads == 2

Thread(id, frame, target, user_message) ==
    [id |-> id, frame |-> frame, target |-> target, pc |-> "start", user_message |-> user_message]

At(t, pc) == [t EXCEPT !.pc = pc]

\* app.py lines 54-69 with chat_handler.py lines 96-98 and chat_frame.py lines
\* 20-42 and 110-118: a fresh conversation, a new frame, its greeting thread
_show_chat ==
    /\ started.frames < MaxFrames
    /\ started.threads < MaxThreads
    /\ ShowChatScreen
    /\ conversation_history' = _initialize_conversation
    /\ chat_frame' = ChatFrame__init__(started.frames + 1)
    /\ threads' = threads \cup {Thread(started.threads + 1, started.frames + 1,
                                       "_initial_greeting", InitialPrompt)}
    /\ started' = [frames |-> started.frames + 1, threads |-> started.threads + 1]
    /\ UNCHANGED <<ai_available, configVars, after_queue, generated, displayed>>

\* chat_frame.py line 118: ten seconds after the frame was built
EnableTimer ==
    /\ chat_frame # None
    /\ chat_frame.timer
    /\ chat_frame' = EnableRecommendations(chat_frame)
    /\ UNCHANGED <<calcVars, appVars, ai_available, configVars, conversation_history, threads,
                   after_queue, started, generated, displayed>>

\* _send_message without the test of waiting_for_response
_send_message_unguarded(text) ==
    /\ chat_frame # None
    /\ chat_frame.message_input = "normal"
    /\ started.threads < MaxThreads
    /\ IF Strip(text) = [str |-> ""]
       THEN UNCHANGED <<chat_frame, threads, started>>
       ELSE /\ chat_frame' = MessageSent(chat_frame, Strip(text))
            /\ threads' = threads \cup {Thread(started.threads + 1, chat_frame.id,
                                               "_process_message", Strip(text))}
            /\ started' = [started EXCEPT !.threads = @ + 1]
    /\ UNCHANGED <<calcVars, appVars, ai_available, configVars, conversation_history, after_queue,
                   generated, displayed>>

\* chat_frame.py lines 154-175: the user typed text and pressed Return or Send
_send_message(text) ==
    /\ chat_frame # None
    /\ chat_frame.message_input = "normal"
    /\ started.threads < MaxThreads
    /\ IF Strip(text) = [str |-> ""] \/ chat_frame.waiting_for_response
       THEN UNCHANGED <<chat_frame, threads, started>>
       ELSE /\ chat_frame' = MessageSent(chat_frame, Strip(text))
            /\ threads' = threads \cup {Thread(started.threads + 1, chat_frame.id,
                                               "_process_message", Strip(text))}
            /\ started' = [started EXCEPT !.threads = @ + 1]
    /\ UNCHANGED <<calcVars, appVars, ai_available, configVars, conversation_history, after_queue,
                   generated, displayed>>

\* chat_frame.py lines 215-225: the "Get Recommendations" button
_request_recommendations ==
    /\ chat_frame # None
    /\ chat_frame.get_recommendations_button = "normal"
    /\ started.threads < MaxThreads
    /\ chat_frame' = RecommendationsRequested(chat_frame)
    /\ threads' = threads \cup {Thread(started.threads + 1, chat_frame.id,
                                       "_generate_recommendations", None)}
    /\ started' = [started EXCEPT !.threads = @ + 1]
    /\ UNCHANGED <<calcVars, appVars, ai_available, configVars, conversation_history, after_queue,
                   generated, displayed>>

\* the "Apply Recommendations" button made by _display_recommendations
ApplyButton ==
    /\ chat_frame # None
    /\ chat_frame.apply_button # None
    /\ _apply_recommendations(chat_frame.apply_button)

\* a callback of thread t is handed to after(0, ...)
Scheduled(t, cb) == [frame |-> t.frame, callback |-> cb.callback, args |-> cb.args]

\* chat_handler.py lines 47-50, run by a greeting or message thread: the user
\* message is appended and the completion requested
send_message_begin(t) ==
    /\ t.target \in {"_initial_greeting", "_process_message"}
    /\ t.pc = "start"
    /\ conversation_history' = WithUser(conversation_history, t.user_message)
    /\ threads' = (threads \ {t}) \cup {At(t, "chat_completion")}
    /\ UNCHANGED <<calcVars, appVars, ai_available, configVars, chat_frame, after_queue, started,
                   generated, displayed>>

\* chat_frame.py lines 125-131 and 187
SendCallback(t, response) ==
    IF t.target = "_initial_greeting" THEN GreetingCallback(response)
    ELSE ResponseCallback(response)

\* chat_handler.py lines 50-58, then chat_frame.py lines 125-131 or 187: the
\* completion ends, the reply is appended and the thread hands its callback over
send_message_end(t, outcome) ==
    /\ t.target \in {"_initial_greeting", "_process_message"}
    /\ t.pc = "chat_completion"
    /\ conversation_history' = WithAssistant(conversation_history,
                                             chat_completion(ai_available, outcome))
    /\ after_queue' = Append(after_queue,
                             Scheduled(t, SendCallback(t, send_message_returns(
                                 chat_completion(ai_available, outcome)))))
    /\ threads' = threads \ {t}
    /\ UNCHANGED <<calcVars, appVars, ai_available, configVars, chat_frame, started, generated,
                   displayed>>

\* the notice of lines 246-248 is among the callbacks
Announced(callbacks) ==
    \E i \in DOMAIN callbacks : callbacks[i].args = <<"system", FallbackNotice>>

\* chat_frame.py lines 232-251: the end of a recommendation thread, from what
\* get_recommendations returned; answer is what the AI said, if it was asked
Generated(t, recommendations, answer) ==
    /\ after_queue' = after_queue \o
                      [i \in DOMAIN GenerateCallbacks(recommendations, ai_available) |->
                          Scheduled(t, GenerateCallbacks(recommendations, ai_available)[i])]
    /\ generated' = [recommendations |-> HandedOver(recommendations, ai_available),
                     returned |-> recommendations,
                     notice |-> Announced(GenerateCallbacks(recommendations, ai_available)),
                     available |-> ai_available,
                     answer |-> answer]
    /\ threads' = threads \ {t}

\* chat_handler.py lines 68-83: with fewer than three messages recorded the call
\* returns None at once, else the recommendation is requested
get_recommendations_begin(t) ==
    /\ t.target = "_generate_recommendations"
    /\ t.pc = "start"
    /\ IF EnoughHistory(conversation_history)
       THEN /\ threads' = (threads \ {t}) \cup {At(t, "get_pricing_recommendation")}
            /\ UNCHANGED <<after_queue, generated>>
       ELSE Generated(t, None, Nothing)
    /\ UNCHANGED <<calcVars, appVars, ai_available, configVars, conversation_history, chat_frame,
                   started, displayed>>

\* chat_handler.py lines 83-94 and client.py lines 111-217, then chat_frame.py
\* lines 232-251
get_recommendations_end(t, answer) ==
    /\ t.target = "_generate_recommendations"
    /\ t.pc = "get_pricing_recommendation"
    /\ Generated(t, get_pricing_recommendation(ai_available, answer),
                 IF ai_available THEN answer ELSE Nothing)
    /\ UNCHANGED <<calcVars, appVars, ai_available, configVars, conversation_history, chat_frame,
                   started, displayed>>

\* the frame a callback was made for is the frame on the screen
Alive(cb) == chat_frame # None /\ chat_frame.id = cb.frame

\* the main loop runs the callback cb; the callback of a destroyed frame fails
\* at its first widget call and changes nothing
Run(cb) ==
    /\ after_queue' = Tail(after_queue)
    /\ IF Alive(cb)
       THEN /\ chat_frame' = Callback(chat_frame, cb)
            /\ displayed' = IF cb.callback = "_display_recommendations" THEN cb.args[1]
                            ELSE displayed
       ELSE UNCHANGED <<chat_frame, displayed>>

RunAfter ==
    /\ after_queue # <<>>
    /\ Run(Head(after_queue))
    /\ UNCHANGED <<calcVars, appVars, ai_available, configVars, conversation_history, threads,
                   started, generated>>

\* what the completions API does with a chat request: a reply, or an error
ChatOutcomes ==
    {[str |-> "What did the materials cost?"], [raised |-> "APIConnectionError"]}

\* what the user types into the message entry
UserTexts == {[str |-> "a wool scarf"], [str |-> "  "]}

CraftFairData ==
    [material_cost |-> Dec(125, 1), hours_worked |-> [int |-> 3], labor_rate |-> Dec(200, 1),
     uniqueness |-> Dec(746, 2), demand |-> Dec(80, 1), selling_price |-> Dec(450, 1),
     explanation |-> "priced for a craft fair"]

\* an answer that repeats the default values and the default explanation
LookAlikeData ==
    [material_cost |-> Dec(100, 1), hours_worked |-> Dec(20, 1), labor_rate |-> Dec(150, 1),
     uniqueness |-> Dec(50, 1), demand |-> Dec(50, 1), selling_price |-> [int |-> 0],
     explanation |-> DefaultExplanation]

\* what the completions API does with a recommendation request: an error, text
\* that is no JSON, an object without "demand", a demand of 11, two good
\* objects, a good object without "selling_price" and one with a negative one,
\* a cost given as the string "12.5", one given as "abc" and a negative rate
Answers ==
    {[raised |-> "APIConnectionError"],
     [json |-> None],
     [json |-> [f \in DOMAIN CraftFairData \ {"demand"} |-> CraftFairData[f]]],
     [json |-> [CraftFairData EXCEPT !.demand = Dec(110, 1)]],
     [json |-> CraftFairData],
     [json |-> LookAlikeData],
     [json |-> [f \in DOMAIN CraftFairData \ {"selling_price"} |-> CraftFairData[f]]],
     [json |-> [CraftFairData EXCEPT !.selling_price = FNeg(Five)]],
     [json |-> [CraftFairData EXCEPT !.material_cost = [chars |-> <<"1", "2", ".", "5">>]]],
     [json |-> [CraftFairData EXCEPT !.material_cost = [chars |-> <<"a", "b", "c">>]]],
     [json |-> [CraftFairData EXCEPT !.labor_rate = FNeg(One)]]}

\* AIClient.__init__ lines 46-58: no key, a key whose client failed, a key
Clients ==
    {[client |-> None, api_key |-> None],
     [client |-> None, api_key |-> [str |-> "sk-"]],
     [client |-> [model |-> "gpt-4o-mini"], api_key |-> [str |-> "sk-"]]}

ChatInit ==
    /\ weights = DefaultWeights
    /\ call = None
    /\ result = None
    /\ screen = "welcome"
    /\ input_frame = None
    /\ result_frame = None
    /\ dialogs = <<>>
    /\ typed = NoTyped
    /\ accepted = None
    /\ edits = 0
    /\ runs = <<>>
    /\ ai_available \in {is_available(c.client, c.api_key) : c \in Clients}
    /\ ConfigIdle
    /\ conversation_history = _initialize_conversation
    /\ chat_frame = None
    /\ threads = {}
    /\ after_queue = <<>>
    /\ started = [frames |-> 0, threads |-> 0]
    /\ generated = Nothing
    /\ displayed = Nothing

ChatNext ==
    \/ _show_chat
    \/ _setup_ui
    \/ ApplyButton
    \/ EnableTimer
    \/ \E text \in UserTexts : _send_message(text)
    \/ _request_recommendations
    \/ \E t \in threads : send_message_begin(t)
    \/ \E t \in threads, outcome \in ChatOutcomes : send_message_end(t, outcome)
    \/ \E t \in threads : get_recommendations_begin(t)
    \/ \E t \in threads, answer \in Answers : get_recommendations_end(t, answer)
    \/ RunAfter

SpecChat == ChatInit /\ [][ChatNext]_vars

(***************************************************************************)
(* The chat while a message is being processed: the greeting was answered  *)
(* or failed, its callback ran, and the user has sent a first message,     *)
(* whose thread has not yet called send_message.  started counts the       *)
(* threads started from here on.                                           *)
(***************************************************************************)
FirstMessage == [str |-> "a wool scarf"]

\* chat_frame.py lines 120-131: the chat frame after the greeting thread ended
\* with response and its callback ran
Greeted(response) == Callback(ChatFrame__init__(1), GreetingCallback(send_message_returns(response)))

WaitingInit ==
    /\ weights = DefaultWeights
    /\ call = None
    /\ result = None
    /\ screen = "chat"
    /\ input_frame = None
    /\ result_frame = None
    /\ dialogs = <<>>
    /\ typed = NoTyped
    /\ accepted = None
    /\ edits = 0
    /\ runs = <<>>
    /\ ai_available \in {is_available(c.client, c.api_key) : c \in Clients}
    /\ ConfigIdle
    /\ \E outcome \in ChatOutcomes :
          /\ conversation_history =
                 WithAssistant(WithUser(_initialize_conversation, InitialPrompt),
                               chat_completion(ai_available, outcome))
          /\ chat_frame = MessageSent(Greeted(chat_completion(ai_available, outcome)),
                                      FirstMessage)
    /\ threads = {Thread(0, 1, "_process_message", FirstMessage)}
    /\ after_queue = <<>>
    /\ started = [frames |-> 1, threads |-> 0]
    /\ generated = Nothing
    /\ displayed = Nothing

\* what the completions API does with a recommendation request, in short
WaitingAnswers == {[raised |-> "APIConnectionError"], [json |-> CraftFairData]}

\* the chat screen and its threads; the chat is left for the calculator at most
WaitingNext ==
    \/ _setup_ui
    \/ EnableTimer
    \/ \E text \in UserTexts : _send_message(text)
    \/ _request_recommendations
    \/ \E t \in threads : send_message_begin(t)
    \/ \E t \in threads, outcome \in ChatOutcomes : send_message_end(t, outcome)
    \/ \E t \in threads : get_recommendations_begin(t)
    \/ \E t \in threads, answer \in WaitingAnswers : get_recommendations_end(t, answer)
    \/ RunAfter

SpecWaiting == WaitingInit /\ [][WaitingNext]_vars

\* the main loop takes the callback at the head of its queue: the steps of
\* RunAfter, which alone shortens the queue
MainLoopRuns == after_queue # <<>> /\ after_queue' = Tail(after_queue)

\* the scheduling of the chat: a started thread runs (threading.Thread.start), the
\* completion request returns (client.py lines 81-95), and the main loop runs the
\* callbacks handed to after(0, ...)
WaitingFairness ==
    /\ WF_vars(\E t \in threads : send_message_begin(t))
    /\ WF_vars(\E t \in threads, outcome \in ChatOutcomes : send_message_end(t, outcome))
    /\ WF_after_queue(MainLoopRuns)

LiveWaiting == SpecWaiting /\ WaitingFairness

(***************************************************************************)
(* A ChatHandler whose operations are called one at a time.  call is the   *)
(* last operation with the history before and after it, result the value   *)
(* it returned.  The history grows to at most MaxHistory entries.          *)
(***************************************************************************)
MaxHistory == 5

\* what the completions API does with a chat request: a reply, an empty reply,
\* no content, or an error
HandlerOutcomes == ChatOutcomes \cup {[str |-> ""], None}

HandlerInit ==
    /\ weights = DefaultWeights
    /\ call = None
    /\ result = None
    /\ screen = "welcome"
    /\ input_frame = None
    /\ result_frame = None
    /\ dialogs = <<>>
    /\ typed = NoTyped
    /\ accepted = None
    /\ edits = 0
    /\ runs = <<>>
    /\ ai_available \in {is_available(c.client, c.api_key) : c \in Clients}
    /\ ConfigIdle
    /\ conversation_history = _initialize_conversation
    /\ chat_frame = None
    /\ threads = {}
    /\ after_queue = <<>>
    /\ started = [frames |-> 0, threads |-> 0]
    /\ generated = Nothing
    /\ displayed = Nothing

\* the handler after an operation that left the history after
HandlerCalled(op, args, after, returned) ==
    /\ conversation_history' = after
    /\ call' = Made(op, args, conversation_history, after, returned)
    /\ result' = returned
    /\ UNCHANGED <<weights, runs, appVars, ai_available, configVars, chat_frame, threads, after_queue,
                   started, generated, displayed>>

\* chat_handler.py lines 36-58
send_message(user_message, outcome) ==
    /\ Len(conversation_history) + 2 <= MaxHistory
    /\ HandlerCalled("send_message", [user_message |-> user_message, outcome |-> outcome],
                     WithAssistant(WithUser(conversation_history, user_message),
                                   chat_completion(ai_available, outcome)),
                     send_message_returns(chat_completion(ai_available, outcome)))

\* chat_handler.py lines 60-94
get_recommendations(answer) ==
    HandlerCalled("get_recommendations", [answer |-> answer], conversation_history,
                  IF EnoughHistory(conversation_history)
                  THEN get_pricing_recommendation(ai_available, answer)
                  ELSE None)

\* chat_handler.py lines 96-98
reset_conversation ==
    HandlerCalled("reset_conversation", Nothing, _initialize_conversation, None)

HandlerNext ==
    \/ \E user_message \in UserTexts, outcome \in HandlerOutcomes :
          send_message(user_message, outcome)
    \/ \E answer \in WaitingAnswers : get_recommendations(answer)
    \/ reset_conversation

SpecHandler == HandlerInit /\ [][HandlerNext]_vars

(***************************************************************************)
(* src/utils/config.py: Config objects over the settings files of the      *)
(* configuration directories.  At most MaxConfigs objects are created.     *)
(***************************************************************************)
MaxConfigs == 2

\* settings.json exists and cannot be read or parsed
UnreadableFile == [unreadable |-> TRUE]

\* a settings.json written by an earlier version: one section with one key
PartialFile == [json |-> [pricing |-> [uniqueness_weight |-> Dec(7, 2)]]]

\* the order in which json.load creates the section dictionaries
SectionOrder == <<"pricing", "ui", "defaults", "extra">>

\* the values a configuration holds: each section with its keys and values
Deep(h, config) == [section \in DOMAIN config |-> h[config[section]]]

\* dict.copy(): a new outer dictionary that refers to the same sections
ShallowCopy(d) == [section \in DOMAIN d |-> d[section]]

\* d[key] = value
Put(d, key, value) == [k \in DOMAIN d \cup {key} |-> IF k = key THEN value ELSE d[k]]

\* lines 90-95: json.dump writes the values; an IOError leaves the file as it was
_save_config(files, config_dir, h, config, can_write) ==
    IF can_write THEN [files EXCEPT ![config_dir] = [json |-> Deep(h, config)]]
    ELSE files

\* the sections of the parsed file in the order of their creation
LoadedSections(data) == SelectSeq(SectionOrder, LAMBDA section : section \in DOMAIN data)

\* lines 68-69: json.load builds new dictionaries with the values of the file
LoadedHeap(h, data) ==
    h \o [i \in 1..Len(LoadedSections(data)) |-> data[LoadedSections(data)[i]]]

LoadedConfig(h, data) ==
    [section \in DOMAIN data |->
        Len(h) + (CHOOSE i \in 1..Len(LoadedSections(data)) : LoadedSections(data)[i] = section)]

\* lines 104-110: a missing section becomes the section dictionary of
\* DEFAULT_CONFIG itself, a missing key gets the value DEFAULT_CONFIG has
MergedConfig(config) ==
    [section \in DOMAIN config \cup DOMAIN DEFAULT_CONFIG |->
        IF section \in DOMAIN config THEN config[section] ELSE DEFAULT_CONFIG[section]]

MergedHeap(h, config) ==
    [i \in DOMAIN h |->
        IF \E section \in DOMAIN config \cap DOMAIN DEFAULT_CONFIG : config[section] = i
        THEN LET section == CHOOSE x \in DOMAIN config \cap DOMAIN DEFAULT_CONFIG : config[x] = i
                 values  == h[DEFAULT_CONFIG[section]]
             IN  [k \in DOMAIN h[i] \cup DOMAIN values |->
                     IF k \in DOMAIN h[i] THEN h[i][k] ELSE values[k]]
        ELSE h[i]]

\* lines 59-81: the heap, the outer dictionary and the files after _load_config
_load_config(h, files, config_dir, can_write) ==
    IF files[config_dir] # Absent
    THEN IF files[config_dir] # UnreadableFile
         THEN [heap   |-> MergedHeap(LoadedHeap(h, files[config_dir].json),
                                     LoadedConfig(h, files[config_dir].json)),
               config |-> MergedConfig(LoadedConfig(h, files[config_dir].json)),
               files  |-> files,
               source |-> "file"]
         ELSE [heap |-> h, config |-> ShallowCopy(DEFAULT_CONFIG), files |-> files,
               source |-> "defaults"]
    ELSE [heap   |-> h,
          config |-> ShallowCopy(DEFAULT_CONFIG),
          files  |-> _save_config(files, config_dir, h, ShallowCopy(DEFAULT_CONFIG), can_write),
          source |-> "defaults"]

\* lines 36-57: Config(config_dir); created records the values the new object
\* holds, was_set whether set was called on it
Config__init__(config_dir, can_write) ==
    /\ Len(configs) < MaxConfigs
    /\ heap' = _load_config(heap, settings_file, config_dir, can_write).heap
    /\ settings_file' = _load_config(heap, settings_file, config_dir, can_write).files
    /\ configs' = Append(configs,
                         [config_dir |-> config_dir,
                          config     |-> _load_config(heap, settings_file, config_dir, can_write).config,
                          source     |-> _load_config(heap, settings_file, config_dir, can_write).source,
                          created    |-> Deep(heap', _load_config(heap, settings_file, config_dir, can_write).config),
                          was_set    |-> FALSE])
    /\ UNCHANGED <<calcVars, appVars, chatVars>>

\* lines 139-140: the outer dictionary with the section, a new one if missing
WithSection(h, config, section) ==
    IF section \in DOMAIN config THEN config
    ELSE [s \in DOMAIN config \cup {section} |->
             IF s = section THEN Len(h) + 1 ELSE config[s]]

\* lines 139-143: the heap after self.config[section][key] = value
SetHeap(h, config, section, key, value) ==
    LET h1 == IF section \in DOMAIN config THEN h ELSE Append(h, <<>>)
    IN  [h1 EXCEPT ![WithSection(h, config, section)[section]] = Put(@, key, value)]

\* lines 129-146: configs[i].set(section, key, value)
set(i, section, key, value, can_write) ==
    /\ heap' = SetHeap(heap, configs[i].config, section, key, value)
    /\ configs' = [configs EXCEPT ![i].config = WithSection(heap, @, section),
                                  ![i].was_set = TRUE]
    /\ settings_file' = _save_config(settings_file, configs[i].config_dir, heap',
                                     WithSection(heap, configs[i].config, section), can_write)
    /\ UNCHANGED <<calcVars, appVars, chatVars>>

\* lines 175-177: configs[i].save()
save(i, can_write) ==
    /\ settings_file' = _save_config(settings_file, configs[i].config_dir, heap,
                                     configs[i].config, can_write)
    /\ UNCHANGED <<heap, configs, calcVars, appVars, chatVars>>

\* the settings the user changes
SetArgs ==
    {<<"pricing", "uniqueness_weight", Dec(5, 1)>>,
     <<"ui", "theme", [str |-> "dark"]>>,
     <<"extra", "note", [str |-> "craft fair"]>>}

ConfigInit ==
    /\ weights = DefaultWeights
    /\ call = None
    /\ result = None
    /\ screen = "none"
    /\ input_frame = None
    /\ result_frame = None
    /\ dialogs = <<>>
    /\ typed = NoTyped
    /\ accepted = None
    /\ edits = 0
    /\ runs = <<>>
    /\ ai_available = FALSE
    /\ conversation_history = <<>>
    /\ chat_frame = None
    /\ threads = {}
    /\ after_queue = <<>>
    /\ started = [frames |-> 0, threads |-> 0]
    /\ generated = Nothing
    /\ displayed = Nothing
    /\ heap = DefaultHeap
    /\ configs = <<>>
    /\ settings_file \in [Dirs -> {Absent, UnreadableFile, PartialFile}]

ConfigNext ==
    \/ \E config_dir \in Dirs, can_write \in BOOLEAN : Config__init__(config_dir, can_write)
    \/ \E i \in DOMAIN configs, args \in SetArgs, can_write \in BOOLEAN :
          set(i, args[1], args[2], args[3], can_write)
    \/ \E i \in DOMAIN configs, can_write \in BOOLEAN : save(i, can_write)

SpecConfig == ConfigInit /\ [][ConfigNext]_vars

(***************************************************************************)
(* Claims about calculate_price                                            *)
(***************************************************************************)
Returned == result # None

\* the caller supplied a selling price P > 0
PriceSet == call.selling_price # None /\ FGt(call.selling_price, FZero)

\* x is a multiple of 0.01: the float of a decimal with two places
IsCents(x) == FEq(PyRound(x, 2), x)

\* the float that follows the positive float x
NextUp(x) == MkF(0, BAdd(BShl(x.m, 53 - BitLen(x.m)), <<1>>), x.e - (53 - BitLen(x.m)))

\* C1 as stated: with selling_price 0 the returned final_price is
\* adjusted_price x suggested_price_multiplier, and with selling_price P > 0 it
\* is P exactly.
C1_AsStated ==
    Returned =>
        /\ call.selling_price = FZero =>
               result.final_price = FMul(result.adjusted_price, weights.suggested_price_multiplier)
        /\ PriceSet => result.final_price = call.selling_price

\* C1 amended: the returned final_price is the 2-decimal rounding of
\* adjusted_price x suggested_price_multiplier when selling_price is 0, and the
\* 2-decimal rounding of P when selling_price is P > 0 (so P itself exactly
\* when P is a multiple of 0.01).
C1_FinalPriceRounded ==
    Returned =>
        /\ call.selling_price = FZero =>
               result.final_price =
                   PyRound(FMul(result.adjusted_price, weights.suggested_price_multiplier), 2)
        /\ PriceSet => result.final_price = PyRound(call.selling_price, 2)
        /\ PriceSet /\ IsCents(call.selling_price) => result.final_price = call.selling_price

\* a call with P = 12.345 has returned 12.35, and not P
C1_Witness ==
    /\ Returned
    /\ call.selling_price = Dec(12345, 3)
    /\ result.final_price = Dec(1235, 2)

\* the caller's selling price is below the adjusted price
SoldAtLoss == Returned /\ PriceSet /\ FLt(call.selling_price, result.adjusted_price)

\* C2 as stated: when the supplied selling price is below adjusted_price,
\* profit_amount, profit_margin_percentage and markup_percentage are all
\* strictly negative.
C2_AsStated ==
    SoldAtLoss =>
        /\ FLt(result.profit_amount, FZero)
        /\ FLt(result.profit_margin_percentage, FZero)
        /\ FLt(result.markup_percentage, FZero)

\* the unrounded loss, and the unrounded percentages it gives
Loss == FSub(call.selling_price, result.adjusted_price)
LossMargin == FMul(FDiv(Loss, call.selling_price), FromInt(100))
LossMarkup == FMul(FDiv(Loss, result.adjusted_price), FromInt(100))
MinusCent == FNeg(Dec(1, 2))

\* C2 amended: when the supplied selling price is below adjusted_price, none
\* of the three figures is positive, and each is strictly negative whenever
\* its unrounded value is -0.01 or less; a smaller loss is reported as -0.0
\* by the rounding, never by a clamp.
C2_LossNotClamped ==
    SoldAtLoss =>
        /\ FLe(result.profit_amount, FZero)
        /\ FLe(result.profit_margin_percentage, FZero)
        /\ FLe(result.markup_percentage, FZero)
        /\ FLe(Loss, MinusCent) => FLt(result.profit_amount, FZero)
        /\ FLe(LossMargin, MinusCent) => FLt(result.profit_margin_percentage, FZero)
        /\ FLe(LossMarkup, MinusCent) => FLt(result.markup_percentage, FZero)

\* a sale at a loss has been reported with three strictly negative figures
C2_Witness ==
    /\ SoldAtLoss
    /\ FLt(result.profit_amount, FZero)
    /\ FLt(result.profit_margin_percentage, FZero)
    /\ FLt(result.markup_percentage, FZero)

\* C8 as stated: the ten currency figures and the two percentages of the
\* returned dictionary are all multiples of 0.01.
C8_AsStated ==
    Returned =>
        /\ IsCents(result.labor_cost)
        /\ IsCents(result.base_price)
        /\ IsCents(result.uniqueness_adjustment)
        /\ IsCents(result.demand_adjustment)
        /\ IsCents(result.factor_adjustment)
        /\ IsCents(result.adjusted_price)
        /\ IsCents(result.final_price)
        /\ IsCents(result.profit_amount)
        /\ IsCents(result.economy_price)
        /\ IsCents(result.premium_price)
        /\ IsCents(result.profit_margin_percentage)
        /\ IsCents(result.markup_percentage)

\* C8 amended: final_price, profit_amount, economy_price, premium_price,
\* profit_margin_percentage and markup_percentage are multiples of 0.01; the
\* other six figures (labor_cost, base_price, the three adjustments and
\* adjusted_price) are returned as computed, unrounded.
C8_SixFiguresRounded ==
    Returned =>
        /\ IsCents(result.final_price)
        /\ IsCents(result.profit_amount)
        /\ IsCents(result.economy_price)
        /\ IsCents(result.premium_price)
        /\ IsCents(result.profit_margin_percentage)
        /\ IsCents(result.markup_percentage)
        /\ result.labor_cost = FMul(call.hours_worked, call.labor_rate)
        /\ result.adjusted_price = FAdd(result.base_price, result.factor_adjustment)

\* a result whose prices are rounded while its adjusted price is not
C8_Witness ==
    /\ Returned
    /\ FGt(result.final_price, FZero)
    /\ IsCents(result.economy_price)
    /\ ~IsCents(result.adjusted_price)

\* the "Simple Jewelry" scenario of InputFrame._load_scenario
SimpleJewelry ==
    [material_cost |-> Dec(50, 1), hours_worked |-> Dec(20, 1), labor_rate |-> Dec(150, 1),
     uniqueness |-> Dec(60, 1), demand |-> Dec(70, 1), selling_price |-> FZero]

ScenarioReturned == Returned /\ call = SimpleJewelry /\ weights = DefaultWeights

\* C9 as stated: the scenario returns labor_cost 30.0, base_price 35.0,
\* uniqueness_adjustment 1.75, demand_adjustment 2.8, factor_adjustment 4.55,
\* adjusted_price 39.55, final_price 79.10, profit_amount 39.55,
\* profit_margin_percentage 50.0, markup_percentage 100.0, economy_price 67.24
\* and premium_price 98.88.
C9_AsStated ==
    ScenarioReturned =>
        /\ result.labor_cost = Dec(300, 1)
        /\ result.base_price = Dec(350, 1)
        /\ result.uniqueness_adjustment = Dec(175, 2)
        /\ result.demand_adjustment = Dec(28, 1)
        /\ result.factor_adjustment = Dec(455, 2)
        /\ result.adjusted_price = Dec(3955, 2)
        /\ result.final_price = Dec(7910, 2)
        /\ result.profit_amount = Dec(3955, 2)
        /\ result.profit_margin_percentage = Dec(500, 1)
        /\ result.markup_percentage = Dec(1000, 1)
        /\ result.economy_price = Dec(6724, 2)
        /\ result.premium_price = Dec(9888, 2)

\* C9 amended: the scenario returns the stated figures except that
\* economy_price is 67.23 (79.1 * 0.85 is just below 67.235 in binary), and
\* demand_adjustment and factor_adjustment are the floats next above 2.8 and
\* 4.55 (2.8000000000000003 and 4.550000000000001).
C9_ScenarioFigures ==
    ScenarioReturned =>
        /\ result.labor_cost = Dec(300, 1)
        /\ result.base_price = Dec(350, 1)
        /\ result.uniqueness_adjustment = Dec(175, 2)
        /\ result.demand_adjustment = NextUp(Dec(28, 1))
        /\ result.factor_adjustment = NextUp(Dec(455, 2))
        /\ result.adjusted_price = Dec(3955, 2)
        /\ result.final_price = Dec(7910, 2)
        /\ result.profit_amount = Dec(3955, 2)
        /\ result.profit_margin_percentage = Dec(500, 1)
        /\ result.markup_percentage = Dec(1000, 1)
        /\ result.economy_price = Dec(6723, 2)
        /\ result.premium_price = Dec(9888, 2)

\* the scenario has been calculated, with an economy price of 67.23
C9_Witness == ScenarioReturned /\ result.economy_price = Dec(6723, 2)

(***************************************************************************)
(* Claims about validate_pricing_inputs                                    *)
(***************************************************************************)
\* the two ratings of the call are numbers
NumericRatings == IsFloat(call.uniqueness) /\ IsFloat(call.demand)

InRange(x) == FGe(x, FromInt(1)) /\ FLe(x, FromInt(10))

\* C10 as stated: for numeric ratings, validate_pricing_inputs either raises
\* or returns both ratings unaltered, and it raises whenever a rating is
\* outside [1, 10].
C10_AsStated ==
    Returned /\ NumericRatings =>
        /\ ~Raised(result) =>
               /\ FEq(Num(result.uniqueness), call.uniqueness)
               /\ FEq(Num(result.demand), call.demand)
        /\ ~(InRange(call.uniqueness) /\ InRange(call.demand)) => Raised(result)

\* the call with uniqueness 10.9 has returned, with uniqueness 10
C10_Witness ==
    /\ Returned
    /\ call.uniqueness = Dec(109, 1)
    /\ ~Raised(result)
    /\ result.uniqueness = [int |-> 10]

(***************************************************************************)
(* Claims about the calculate flow and the tracked recommendation          *)
(***************************************************************************)
\* the last operation ran _calculate_price: it called the engine or showed a box
CalculateRan == call # None \/ dialogs # <<>>

\* a rating entry holds a typed number outside [1, 10]
TypedOutOfRange ==
    \E which \in Sliders : IsFloat(typed[which]) /\ ~InRange(typed[which])

\* C3 as stated: calculate_price is never invoked with a rating outside
\* [1, 10], and a calculation asked for after a rating outside [1, 10] was
\* typed is rejected with an input error before the engine is called.
C3_AsStated ==
    /\ call # None => InRange(call.uniqueness) /\ InRange(call.demand)
    /\ TypedOutOfRange /\ CalculateRan =>
           /\ call = None
           /\ Len(dialogs) = 1
           /\ dialogs[1].title = "Invalid Input"

\* 15 was typed as the uniqueness, and the calculation went through, silently,
\* with the uniqueness 10.0
C3_Witness ==
    /\ typed.uniqueness = Dec(150, 1)
    /\ call # None
    /\ call.uniqueness = Ten
    /\ dialogs = <<>>
    /\ result_frame = update_results(result)

CostVars == {"material_cost_var", "hours_worked_var", "labor_rate_var", "selling_price_var"}

\* one of the four cost variables of the frame holds a negative number
HasNegative(frame) == \E v \in CostVars : IsFloat(frame[v]) /\ FLt(frame[v], FZero)

NegativeMessages ==
    {"Material cost cannot be negative", "Hours worked cannot be negative",
     "Labor rate cannot be negative", "Selling price cannot be negative"}

NonNegative(values) ==
    /\ FGe(values.material_cost, FZero)
    /\ FGe(values.hours_worked, FZero)
    /\ FGe(values.labor_rate, FZero)
    /\ FGe(values.selling_price, FZero)

Holds(frame, rec) ==
    /\ frame.material_cost_var = rec.material_cost
    /\ frame.hours_worked_var = rec.hours_worked
    /\ frame.labor_rate_var = rec.labor_rate
    /\ frame.uniqueness_var = rec.uniqueness
    /\ frame.demand_var = rec.demand
    /\ frame.selling_price_var = rec.selling_price

\* C7 as stated: once a recommendation has been accepted, whatever was done
\* since, reset-to-recommendations on the calculator restores exactly the
\* recommendation accepted last.
C7_AsStated ==
    accepted # None /\ screen = "calculator" =>
        /\ input_frame.recommended_values = accepted
        /\ Holds(ResetToRecommendations(input_frame), accepted)

\* a recommendation was accepted, and the calculator now tracks none
C7_Witness ==
    /\ accepted # None
    /\ screen = "calculator"
    /\ input_frame.recommended_values = None
    /\ ~Holds(ResetToRecommendations(input_frame), accepted)

(***************************************************************************)
(* Claims about the recommendation request of the chat screen              *)
(***************************************************************************)
\* a recommendation thread has ended
HandedOverOnce == generated # Nothing

\* the step in which a recommendation thread ends
GenerateEnds ==
    \E t \in threads : /\ t.target = "_generate_recommendations"
                        /\ \A u \in threads' : u.id # t.id

\* the step in which the main loop runs _display_recommendations on the frame
\* that is on the screen
DisplayRuns ==
    /\ after_queue # <<>>
    /\ after_queue' = Tail(after_queue)
    /\ Head(after_queue).callback = "_display_recommendations"
    /\ Alive(Head(after_queue))

Enabled(frame) ==
    /\ frame.get_recommendations_button = "normal"
    /\ frame.send_button = "normal"
    /\ frame.message_input = "normal"

\* C5 as stated: whenever get_recommendations produced no recommendation, the
\* request hands the fallback over, and _display_recommendations never
\* receives None
C5_AsStated ==
    /\ HandedOverOnce /\ generated.returned = None => generated.recommendations = Fallback
    /\ displayed # None

\* C5 amended: when get_recommendations returns None the thread hands over the
\* fallback if the client is unavailable and None if it is available; and
\* _display_recommendations, given None, appends the message "Could not
\* generate recommendations...", leaves the Apply button as it was and enables
\* the two buttons and the entry; given a recommendation it puts that
\* recommendation on the Apply button
C5_FallbackOnlyWhenUnavailable ==
    [][/\ GenerateEnds /\ generated'.returned = None =>
            generated'.recommendations = IF ai_available THEN None ELSE Fallback
       /\ DisplayRuns /\ Head(after_queue).args[1] = None =>
            /\ chat_frame'.chat_history =
                   Append(chat_frame.chat_history, Message("system", CouldNotGenerate))
            /\ chat_frame'.apply_button = chat_frame.apply_button
            /\ Enabled(chat_frame')
            /\ displayed' = None
       /\ DisplayRuns /\ Head(after_queue).args[1] # None =>
            /\ chat_frame'.apply_button = Head(after_queue).args[1]
            /\ displayed' = Head(after_queue).args[1]]_vars

\* the client is available, the AI was asked and gave no usable answer, and the
\* chat shows that no recommendation could be generated
C5_Witness ==
    /\ HandedOverOnce
    /\ generated.available
    /\ generated.answer # Nothing
    /\ generated.returned = None
    /\ displayed = None
    /\ chat_frame # None
    /\ chat_frame.chat_history[Len(chat_frame.chat_history)].message = CouldNotGenerate
    /\ chat_frame.apply_button = None

\* the six values of a recommendation are the default ones
HasDefaultValues(r) ==
    /\ r.material_cost = DEFAULT_PRICING_PARAMETERS.material_cost
    /\ r.hours_worked = DEFAULT_PRICING_PARAMETERS.hours_worked
    /\ r.labor_rate = DEFAULT_PRICING_PARAMETERS.labor_rate
    /\ r.uniqueness = DEFAULT_PRICING_PARAMETERS.uniqueness
    /\ r.demand = DEFAULT_PRICING_PARAMETERS.demand
    /\ r.selling_price = DEFAULT_PRICING_PARAMETERS.selling_price

LooksLikeFallback(r) ==
    r # None /\ HasDefaultValues(r) /\ r.explanation = DefaultExplanation

\* C6 as stated: what is handed over while the client is unavailable is the
\* fallback with the default explanation, and nothing handed over while the
\* client is available has the default values with the default explanation
C6_AsStated ==
    HandedOverOnce =>
        IF generated.available THEN ~LooksLikeFallback(generated.recommendations)
        ELSE LooksLikeFallback(generated.recommendations)

\* C6 amended: while the client is unavailable the thread hands over the
\* fallback (default values, default explanation) without asking the AI, and
\* announces it with the system message "Using default recommendations...";
\* while the client is available it hands over exactly what get_recommendations
\* returned, None included, and makes no such announcement
C6_FallbackAnnounced ==
    HandedOverOnce =>
        IF generated.available
        THEN /\ generated.recommendations = generated.returned
             /\ ~generated.notice
        ELSE /\ LooksLikeFallback(generated.recommendations)
             /\ generated.returned = None
             /\ generated.answer = Nothing
             /\ generated.notice

\* an available AI answered with the default values and the default
\* explanation, and the chat offers that answer for applying
C6_Witness ==
    /\ HandedOverOnce
    /\ generated.available
    /\ generated.answer # Nothing
    /\ LooksLikeFallback(generated.recommendations)
    /\ displayed = generated.recommendations
    /\ chat_frame # None
    /\ chat_frame.apply_button = generated.recommendations

(***************************************************************************)
(* Claims about the calculator object                                      *)
(***************************************************************************)
WeightNames ==
    {"uniqueness_weight", "demand_weight", "economy_modifier", "premium_modifier",
     "suggested_price_multiplier"}

Updates == {i \in DOMAIN runs : runs[i].op = "update_weights"}
Calculations == {i \in DOMAIN runs : runs[i].op = "calculate_price"}

\* C11: after every update_weights call, whatever calls came before it, each
\* of the five weights is the argument supplied for it, or its value before
\* the call when none was supplied; a call without arguments changes nothing
C11_WeightsMerged ==
    \A i \in Updates :
        /\ \A f \in WeightNames :
               runs[i].after[f] = IF runs[i].args[f] # None THEN runs[i].args[f]
                                  ELSE runs[i].before[f]
        /\ runs[i].args = NoWeights => runs[i].after = runs[i].before

\* a call that supplies one weight is made on weights that an earlier call
\* changed from the defaults in another field, which it leaves as they were
C11_Witness ==
    /\ Len(runs) = 3
    /\ runs[3].op = "update_weights"
    /\ runs[3].args = [NoWeights EXCEPT !.demand_weight = Dec(1, 1)]
    /\ runs[3].before.premium_modifier = Dec(15, 1)
    /\ runs[3].after.premium_modifier = Dec(15, 1)
    /\ runs[3].after.demand_weight = Dec(1, 1)
    /\ runs[2].args = NoWeights
    /\ weights = runs[3].after

\* the run was made with both ratings at the midpoint 5
Neutral(run) == FEq(run.args.uniqueness, Five) /\ FEq(run.args.demand, Five)

\* C12: a calculate_price call with uniqueness = 5 and demand = 5 returns
\* factor_adjustment = 0 and adjusted_price = base_price, whatever the costs
\* and whatever the weights
C12_NeutralMidpoint ==
    \A i \in Calculations :
        Neutral(runs[i]) =>
            /\ FIsZero(runs[i].returned.factor_adjustment)
            /\ FIsZero(runs[i].returned.uniqueness_adjustment)
            /\ FIsZero(runs[i].returned.demand_adjustment)
            /\ FEq(runs[i].returned.adjusted_price, runs[i].returned.base_price)

\* a neutral call with costs above 0, made after update_weights changed the
\* weights to other than the defaults
C12_Witness ==
    \E i \in Calculations :
        /\ Neutral(runs[i])
        /\ FGt(runs[i].returned.base_price, FZero)
        /\ runs[i].before.uniqueness_weight # DefaultWeights.uniqueness_weight
        /\ runs[i].before.demand_weight # DefaultWeights.demand_weight
        /\ FEq(runs[i].returned.adjusted_price, runs[i].returned.base_price)

\* the final price of a run before line 73 rounds it
UnroundedFinal(run) ==
    IF run.args.selling_price # None /\ FGt(run.args.selling_price, FZero)
    THEN run.args.selling_price
    ELSE FMul(run.returned.adjusted_price, run.before.suggested_price_multiplier)

\* C13 as stated: calculate_price raises nothing, and in what it returns an
\* adjusted_price of 0 comes with a markup_percentage of 0 and a final_price
\* of 0 with a profit_margin_percentage of 0
C13_AsStated ==
    \A i \in Calculations :
        /\ ~Raised(runs[i].returned)
        /\ FIsZero(runs[i].returned.adjusted_price) =>
               FIsZero(runs[i].returned.markup_percentage)
        /\ FIsZero(runs[i].returned.final_price) =>
               FIsZero(runs[i].returned.profit_margin_percentage)

\* C13 amended: calculate_price raises nothing; an adjusted_price that is not
\* above 0 comes with a markup_percentage of 0; a final price that is not above
\* 0 before it is rounded comes with a profit_margin_percentage of 0
C13_DivisionsGuarded ==
    \A i \in Calculations :
        /\ ~Raised(runs[i].returned)
        /\ ~FGt(runs[i].returned.adjusted_price, FZero) =>
               FIsZero(runs[i].returned.markup_percentage)
        /\ ~FGt(UnroundedFinal(runs[i]), FZero) =>
               FIsZero(runs[i].returned.profit_margin_percentage)

\* a call with no costs, hence adjusted and final price 0, and a call with
\* costs whose final price is 0 because the multiplier is
C13_Witness ==
    \E i, j \in Calculations :
        /\ FIsZero(runs[i].returned.adjusted_price)
        /\ FIsZero(UnroundedFinal(runs[i]))
        /\ FIsZero(runs[i].returned.markup_percentage)
        /\ FIsZero(runs[i].returned.profit_margin_percentage)
        /\ FGt(runs[j].returned.adjusted_price, FZero)
        /\ FIsZero(UnroundedFinal(runs[j]))
        /\ FIsZero(runs[j].returned.profit_margin_percentage)

(***************************************************************************)
(* Claims about applying a recommendation                                  *)
(***************************************************************************)
\* the AI answered with a JSON object
Answered(g) ==
    /\ g # Nothing
    /\ g.answer # Nothing
    /\ ~Raised(g.answer)
    /\ g.answer.json # None

\* the object has the six required fields with values the model accepts
GoodFields(data) ==
    /\ RequiredKeys \subseteq DOMAIN data
    /\ NonNegativeNumber(data.material_cost)
    /\ NonNegativeNumber(data.hours_worked)
    /\ NonNegativeNumber(data.labor_rate)
    /\ RatingNumber(data.uniqueness)
    /\ RatingNumber(data.demand)

\* the selling price a recommendation has by its raw data
PriceOfData(data) ==
    IF "selling_price" \in DOMAIN data /\ FGt(Num(data.selling_price), FZero)
    THEN Num(data.selling_price) ELSE FZero

\* a recommendation was made of every good answer, with that selling price
PriceNormalised(g) ==
    Answered(g) /\ GoodFields(g.answer.json) =>
        /\ g.returned # None
        /\ g.returned.selling_price = PriceOfData(g.answer.json)

\* the step that applies the recommendation of the Apply button
ApplyStep ==
    /\ chat_frame # None
    /\ chat_frame.apply_button # None
    /\ screen' = "calculator"
    /\ dialogs' # <<>>

\* the six inputs of the calculator screen are those of recommendation r
WorkingInputsAre(frame, r) ==
    /\ frame.material_cost_var = r.material_cost
    /\ frame.hours_worked_var = r.hours_worked
    /\ frame.labor_rate_var = r.labor_rate
    /\ frame.uniqueness_var = r.uniqueness
    /\ frame.demand_var = r.demand
    /\ frame.selling_price_var = IF FGt(r.selling_price, FZero) THEN r.selling_price ELSE FZero

\* C14: applying a recommendation sets the five inputs material_cost,
\* hours_worked, labor_rate, uniqueness and demand to the recommendation's
\* fields and the working selling_price to the recommendation's when that is
\* above 0, else to 0; a recommendation is made of every well-formed answer,
\* and its selling_price is the answer's when present and above 0, else 0
C14_AppliedOneForOne ==
    [][/\ PriceNormalised(generated')
       /\ ApplyStep =>
            /\ WorkingInputsAre(input_frame', chat_frame.apply_button)
            /\ input_frame'.recommended_values = RecommendationDict(chat_frame.apply_button)
            /\ call' = get_values(input_frame')
            /\ call'.selling_price = input_frame'.selling_price_var]_vars

\* a recommendation whose raw selling price was negative is on the calculator
\* screen with selling price 0 and the other five values as recommended
C14_Witness ==
    /\ Answered(generated)
    /\ GoodFields(generated.answer.json)
    /\ "selling_price" \in DOMAIN generated.answer.json
    /\ FLt(Num(generated.answer.json.selling_price), FZero)
    /\ screen = "calculator"
    /\ dialogs # <<>>
    /\ WorkingInputsAre(input_frame, generated.recommendations)
    /\ FIsZero(input_frame.selling_price_var)

(***************************************************************************)
(* Claims about the conversation a recommendation is made of               *)
(***************************************************************************)
\* the user and assistant messages recorded
Turns(history) == Cardinality({i \in DOMAIN history : history[i].role \in {"user", "assistant"}})

\* thread t enters get_recommendations in this step
EntersGetRecommendations(t) ==
    /\ t.target = "_generate_recommendations"
    /\ t.pc = "start"
    /\ t \notin threads'

\* in this step thread t goes on to ask the AI client for a recommendation
AsksRecommender(t) == At(t, "get_pricing_recommendation") \in threads'

\* in this step thread t gets None from get_recommendations without asking
Refused(t) ==
    /\ ~AsksRecommender(t)
    /\ generated'.returned = None
    /\ generated'.answer = Nothing

\* C15 as stated: get_recommendations returns None without calling the
\* Recommender whenever fewer than 3 user or assistant messages are recorded
C15_AsStated ==
    [][\A t \in threads :
          EntersGetRecommendations(t) /\ Turns(conversation_history) < 3 => Refused(t)]_vars

\* C15: get_recommendations returns None without calling the Recommender
\* whenever fewer than 3 messages are recorded, the system prompt counted as
\* one of them, and asks the Recommender whenever 3 or more are recorded
C15_ThreeMessages ==
    [][\A t \in threads :
          EntersGetRecommendations(t) =>
              IF Len(conversation_history) < 3 THEN Refused(t) ELSE AsksRecommender(t)]_vars

\* a request was refused for lack of history although the AI is available
C15_Witness ==
    /\ generated # Nothing
    /\ generated.available
    /\ generated.answer = Nothing
    /\ generated.returned = None
    /\ Len(conversation_history) < 3

(***************************************************************************)
(* Claims about malformed answers                                          *)
(***************************************************************************)
CostFields == {"material_cost", "hours_worked", "labor_rate"}
RatingFields == {"uniqueness", "demand"}

\* a numeric field of the object that is present and not a JSON number
WrongType(data) ==
    \E f \in (CostFields \cup RatingFields \cup {"selling_price"}) \cap DOMAIN data : ~IsNumber(data[f])

\* a cost or rating of the object that cannot be read as a number, or a selling
\* price that is not a number
Unreadable(data) ==
    \/ \E f \in (CostFields \cup RatingFields) \cap DOMAIN data : to_float(data[f]) = Nothing
    \/ "selling_price" \in DOMAIN data /\ ~IsNumber(data.selling_price)

NegativeCost(data) ==
    \E f \in CostFields \cap DOMAIN data : to_float(data[f]) # Nothing /\ FLt(to_float(data[f]), FZero)

RatingOutside(data) ==
    \E f \in RatingFields \cap DOMAIN data :
        to_float(data[f]) # Nothing /\ (FLt(to_float(data[f]), One) \/ FGt(to_float(data[f]), Ten))

\* the AI client was asked and its request returned content
Responded(g) ==
    /\ g # Nothing
    /\ g.available
    /\ g.answer # Nothing
    /\ ~Raised(g.answer)

\* a recommendation within the constraints of the model
WithinConstraints(r) ==
    /\ \A f \in CostFields \cup {"selling_price"} : FGe(r[f], FZero)
    /\ \A f \in RatingFields : FGe(r[f], One) /\ FLe(r[f], Ten)

\* what was returned is None or a recommendation within the constraints
NoneOrValid(g) ==
    /\ ~Raised(g.returned)
    /\ g.returned # None => WithinConstraints(g.returned)

Working(frame) ==
    [material_cost |-> frame.material_cost_var, hours_worked |-> frame.hours_worked_var,
     labor_rate |-> frame.labor_rate_var, uniqueness |-> frame.uniqueness_var,
     demand |-> frame.demand_var, selling_price |-> frame.selling_price_var]

\* the six values of a recommendation, object or dictionary, the selling
\* price 0 when it has none
ValuesOf(r) ==
    [material_cost |-> r.material_cost, hours_worked |-> r.hours_worked,
     labor_rate |-> r.labor_rate, uniqueness |-> r.uniqueness, demand |-> r.demand,
     selling_price |-> IF "selling_price" \in DOMAIN r THEN r.selling_price ELSE FZero]

\* the value fields of a recommendation
ValueFields(r) == DOMAIN r \ {"explanation"}

LastSet(calls) == calls[Len(calls)].args

FixedDefaults ==
    [material_cost |-> Dec(100, 1), hours_worked |-> Dec(20, 1), labor_rate |-> Dec(150, 1),
     uniqueness |-> Dec(50, 1), demand |-> Dec(50, 1), selling_price |-> FZero]

\* C17: the frame keeps the last recommendation set and nothing of an earlier
\* one; reset-to-recommendations makes the working inputs the last
\* recommendation's values, the selling price 0 when it has none, and
\* reset-to-defaults makes them the fixed defaults
C17_ReplacedWholesale ==
    [][/\ runs' # <<>> /\ input_frame' # None =>
            /\ DOMAIN input_frame'.recommended_values = ValueFields(LastSet(runs'))
            /\ \A f \in ValueFields(LastSet(runs')) :
                  input_frame'.recommended_values[f] = LastSet(runs')[f]
       /\ _reset_to_recommendations /\ runs # <<>> =>
            Working(input_frame') = ValuesOf(LastSet(runs))
       /\ _reset_to_defaults => Working(input_frame') = FixedDefaults]_vars

\* a recommendation with a selling price was set, then one without, and the
\* working inputs are those of the second with selling price 0
C17_Witness ==
    /\ Len(runs) = 2
    /\ "selling_price" \in DOMAIN runs[1].args
    /\ FGt(runs[1].args.selling_price, FZero)
    /\ "selling_price" \notin DOMAIN runs[2].args
    /\ Working(input_frame) = ValuesOf(runs[2].args)
    /\ FIsZero(input_frame.selling_price_var)

(***************************************************************************)
(* Claims about the fallback recommendation                                *)
(***************************************************************************)
\* a recommendation thread ended while the AI client was unavailable
EndedUnavailable(g) == g # Nothing /\ ~g.available

\* C18: the recommendation made when the AI client is unavailable is a
\* PricingRecommendation, not a failed construction, with material_cost 10,
\* hours_worked 2, labor_rate 15, uniqueness 5, demand 5 and selling_price 0,
\* all within the constraints of the model
C18_FallbackValues ==
    EndedUnavailable(generated) =>
        /\ ~Raised(generated.recommendations)
        /\ generated.recommendations # None
        /\ generated.recommendations.material_cost = FromInt(10)
        /\ generated.recommendations.hours_worked = FromInt(2)
        /\ generated.recommendations.labor_rate = FromInt(15)
        /\ generated.recommendations.uniqueness = FromInt(5)
        /\ generated.recommendations.demand = FromInt(5)
        /\ generated.recommendations.selling_price = FZero
        /\ WithinConstraints(generated.recommendations)

\* the fallback was made and displayed on the chat screen
C18_Witness ==
    /\ EndedUnavailable(generated)
    /\ generated.returned = None
    /\ generated.recommendations # None
    /\ displayed = generated.recommendations
    /\ chat_frame # None
    /\ chat_frame.apply_button = generated.recommendations

AbsentAndZero(i, j) ==
    /\ runs[i].op = runs[j].op
    /\ runs[i].before = runs[j].before
    /\ \A f \in DOMAIN runs[i].args \ {"selling_price"} : runs[i].args[f] = runs[j].args[f]
    /\ runs[i].args.selling_price = None
    /\ runs[j].args.selling_price = FZero

\* C20: calculate_price returns the same in every field for selling_price
\* None and for selling_price 0, the echoed selling_price being 0 in both,
\* and validate_pricing_inputs returns the same dictionary for both
C20_AbsentIsZero ==
    \A i \in DOMAIN runs, j \in DOMAIN runs :
        AbsentAndZero(i, j) =>
            /\ runs[i].returned = runs[j].returned
            /\ runs[i].op = "calculate_price" =>
                   /\ ~Raised(runs[i].returned)
                   /\ runs[i].returned.selling_price = FZero
                   /\ runs[j].returned.selling_price = FZero

\* a calculation without selling price, the same calculation with selling
\* price 0 and a validation with selling price 0 that returned a dictionary
C20_Witness ==
    /\ Len(runs) = 3
    /\ \E i \in 1..3, j \in 1..3, k \in 1..3 :
          /\ AbsentAndZero(i, j)
          /\ runs[i].op = "calculate_price"
          /\ runs[i].returned = runs[j].returned
          /\ FGt(runs[i].returned.final_price, FZero)
          /\ runs[k].op = "validate_pricing_inputs"
          /\ runs[k].args.selling_price = FZero
          /\ ~Raised(runs[k].returned)
          /\ "selling_price" \notin DOMAIN runs[k].returned

(***************************************************************************)
(* Claims about the messages of validate_numeric_input                     *)
(***************************************************************************)
\* the value of the call is a number below the minimum
BelowMin ==
    /\ IsNumber(call.value)
    /\ call.min_value # None
    /\ FLt(Num(call.value), Num(call.min_value))

\* the value of the call is a number not below the minimum, above the maximum
AboveMax ==
    /\ IsNumber(call.value)
    /\ ~BelowMin
    /\ call.max_value # None
    /\ FGt(Num(call.value), Num(call.max_value))

RaisedWith(message) == Raised(result) /\ result.raised = "ValueError" /\ result.message = message

\* C21 as stated: a number below min_value raises 'Value must be at least
\* <min>', a number above max_value raises 'Value cannot exceed <max>', and
\* 'Value must be a valid number' is raised only for what is no number
C21_AsStated ==
    result # None =>
        /\ BelowMin => RaisedWith(<<"Value", " must be at least ", call.min_value>>)
        /\ AboveMax => RaisedWith(<<"Value", " cannot exceed ", call.max_value>>)
        /\ RaisedWith(<<"Value", " must be a valid number">>) => ~IsNumber(call.value)

\* the call with value -1.0 and min_value 0 has raised 'must be a valid number'
C21_Witness ==
    /\ call.value = FNeg(One)
    /\ call.min_value = [int |-> 0]
    /\ RaisedWith(<<"Value", " must be a valid number">>)

(***************************************************************************)
(* Claims about the suggested price                                        *)
(***************************************************************************)
\* no selling price above 0 was supplied and the adjusted price is above 0
AutoCalculated == Returned /\ ~PriceSet /\ FGt(result.adjusted_price, FZero)

\* C22: with the default multiplier 2.0, no selling price and an adjusted
\* price above 0, the returned final_price is twice the adjusted price
\* rounded to 2 decimals, the returned profit_amount is the adjusted price
\* rounded to 2 decimals, markup_percentage is 100 and
\* profit_margin_percentage is 50
C22_TwiceTheCosts ==
    AutoCalculated =>
        /\ result.final_price = PyRound(FMul(FromInt(2), result.adjusted_price), 2)
        /\ result.profit_amount = PyRound(result.adjusted_price, 2)
        /\ result.markup_percentage = FromInt(100)
        /\ result.profit_margin_percentage = FromInt(50)

\* a suggested price was returned for an adjusted price that is no whole
\* number of cents
C22_Witness ==
    /\ AutoCalculated
    /\ ~IsCents(result.adjusted_price)
    /\ result.final_price = PyRound(FMul(FromInt(2), result.adjusted_price), 2)
    /\ result.profit_margin_percentage = FromInt(50)

(***************************************************************************)
(* Claims about the threads of the chat                                    *)
(***************************************************************************)
\* thread t is inside send_message or get_recommendations: it has entered the
\* ChatHandler operation and is waiting for the AI client
Inside(t) == t.pc \in {"chat_completion", "get_pricing_recommendation"}

\* C23 as stated: of the threads of one chat frame at most one at a time is
\* inside a ChatHandler operation
C23_AsStated ==
    \A t \in threads, u \in threads :
        Inside(t) /\ Inside(u) /\ t.frame = u.frame => t = u

\* the greeting thread and the thread of a typed message, both of the frame on
\* the screen, are inside send_message at once, both user messages recorded
C23_Witness ==
    /\ chat_frame # None
    /\ \E t \in threads, u \in threads :
          /\ t.frame = chat_frame.id
          /\ u.frame = chat_frame.id
          /\ t.target = "_initial_greeting"
          /\ u.target = "_process_message"
          /\ Inside(t)
          /\ Inside(u)
    /\ Len(conversation_history) = 3
    /\ conversation_history[2].role = "user"
    /\ conversation_history[3].role = "user"

\* the entries with the given role among the first n of the history
Entries(history, role, n) == Cardinality({i \in 1..n : history[i].role = role})

\* C24 as stated: every assistant reply in the conversation history answers a
\* request recorded in that history, so none answers a request issued before
\* the history was reset: up to any entry, the history holds no more
\* assistant entries than user entries
C24_AsStated ==
    \A n \in DOMAIN conversation_history :
        Entries(conversation_history, "assistant", n) <= Entries(conversation_history, "user", n)

\* in the second chat session the history is the system prompt followed by an
\* assistant reply, the reply to the greeting request of the first session
C24_Witness ==
    /\ chat_frame # None
    /\ chat_frame.id = 2
    /\ Len(conversation_history) = 2
    /\ conversation_history[2].role = "assistant"
    /\ \A t \in threads : t.frame = 2 /\ t.pc = "start"

(***************************************************************************)
(* Claims about the message being processed                                *)
(***************************************************************************)
\* the user messages shown in the chat of a frame
UserMessages(frame) == Cardinality({i \in DOMAIN frame.chat_history : frame.chat_history[i].sender = "user"})

\* the typed messages of frame f that are being processed: a thread runs
\* _process_message or its _handle_response waits in the main loop
Processing(f, ths, queue) ==
    Cardinality({t \in ths : t.frame = f /\ t.target = "_process_message"})
    + Cardinality({i \in DOMAIN queue : queue[i].frame = f /\ queue[i].callback = "_handle_response"})

Locked(f) == chat_frame # None /\ chat_frame.id = f /\ chat_frame.waiting_for_response

\* the chat frame f is on the screen with the wait over and its entry and send
\* button enabled, as _handle_response leaves them
Unlocked(f) ==
    /\ chat_frame # None
    /\ chat_frame.id = f
    /\ ~chat_frame.waiting_for_response
    /\ chat_frame.send_button = "normal"
    /\ chat_frame.message_input = "normal"

\* the chat frame f has been destroyed
Gone(f) == chat_frame = None \/ chat_frame.id # f

\* the chat shows the notice of line 204 as its last message
ShowsNoResponse ==
    /\ chat_frame # None
    /\ chat_frame.chat_history # <<>>
    /\ chat_frame.chat_history[Len(chat_frame.chat_history)] = ResponseMessage(None)

\* C26: whenever a chat frame waits for the response to an accepted message,
\* then, the request returning and the main loop running, _handle_response
\* eventually ends the wait with the entry and the send button enabled, unless
\* the frame is destroyed first: the chat does not stay locked
C26_EventuallyUnlocked == \A f \in 1..MaxFrames : Locked(f) ~> (Unlocked(f) \/ Gone(f))

\* the request for the accepted message failed and _handle_response has ended the
\* wait with the notice that there was no response
C26_Witness ==
    /\ Unlocked(1)
    /\ ShowsNoResponse
    /\ Processing(1, threads, after_queue) = 0
    /\ UserMessages(chat_frame) >= 1

(***************************************************************************)
(* Claims about the conversation history of a ChatHandler                  *)
(***************************************************************************)
\* the history starts with the system prompt and has no other system entry
SystemPromptFirst(history) ==
    /\ history # <<>>
    /\ history[1] = [role |-> "system", content |-> [str |-> "PRICING_ADVISOR_PROMPT"]]
    /\ \A i \in 2..Len(history) : history[i].role # "system"

\* the operation called last
LastOp == IF call = None THEN "__init__" ELSE call.op

\* C27: after any sequence of send_message, get_recommendations and
\* reset_conversation calls made one at a time the history is not empty, its
\* first entry is the system prompt and no other entry has the role system;
\* reset_conversation leaves the system prompt alone in the history, and
\* get_recommendations leaves the history as it found it
C27_SystemPromptFirst ==
    /\ SystemPromptFirst(conversation_history)
    /\ LastOp = "reset_conversation" => Len(conversation_history) = 1
    /\ LastOp = "get_recommendations" => conversation_history = call.before

\* get_recommendations has returned a recommendation from a history of two
\* exchanges
C27_Witness ==
    /\ LastOp = "get_recommendations"
    /\ result # None
    /\ Len(conversation_history) = 5
    /\ conversation_history = call.before

\* the request of the last send_message call came back with a non-empty reply
Replied ==
    /\ ai_available
    /\ call.args.outcome \in {[str |-> "What did the materials cost?"]}

\* the entry send_message records for the user message of its last call
UserEntry == [role |-> "user", content |-> call.args.user_message]

\* C28: send_message leaves the history two entries longer, the user message
\* and then the reply, and returns the reply, when the request came back with a
\* non-empty reply; otherwise it leaves the history one entry longer, the user
\* message, which is not taken back, and returns None
C28_TwoEntriesOrOne ==
    LastOp = "send_message" =>
        IF Replied
        THEN /\ call.after = call.before \o <<UserEntry, [role |-> "assistant", content |-> call.args.outcome]>>
             /\ call.returned = call.args.outcome
             /\ conversation_history = call.after
        ELSE /\ call.after = Append(call.before, UserEntry)
             /\ call.returned = None
             /\ conversation_history = call.after

\* two send_message calls without a reply have left two user entries in a row
C28_Witness ==
    /\ LastOp = "send_message"
    /\ ~Replied
    /\ result = None
    /\ Len(conversation_history) >= 3
    /\ conversation_history[Len(conversation_history)].role = "user"
    /\ conversation_history[Len(conversation_history) - 1].role = "user"

(***************************************************************************)
(* Claims about the range of the adjusted price                            *)
(***************************************************************************)
\* the call was made with the default weights and validated inputs: costs that
\* are not negative and ratings from 1 to 10
ValidatedCall ==
    /\ Returned
    /\ weights = DefaultWeights
    /\ FGe(call.material_cost, FZero) /\ FGe(call.hours_worked, FZero) /\ FGe(call.labor_rate, FZero)
    /\ FGe(call.uniqueness, One) /\ FLe(call.uniqueness, Ten)
    /\ FGe(call.demand, One) /\ FLe(call.demand, Ten)

\* the adjusted price is not negative, and is 0 only when the base price is 0
NeverNegative ==
    /\ FGe(result.adjusted_price, FZero)
    /\ FIsZero(result.adjusted_price) => FIsZero(result.base_price)

\* the relative error allowed to the floating-point sums and products
RoundingError == FDiv(Dec(1, 8), FromInt(10000000))

\* C29 as stated: with the default weights and validated inputs the adjusted
\* price is never negative, lies between 0.64 x base_price and
\* 1.45 x base_price, and is 0 only when base_price is 0
C29_AsStated ==
    ValidatedCall =>
        /\ NeverNegative
        /\ FGe(result.adjusted_price, FMul(Dec(64, 2), result.base_price))
        /\ FLe(result.adjusted_price, FMul(Dec(145, 2), result.base_price))

\* C29: with the default weights and validated inputs the adjusted price is
\* never negative, is 0 only when base_price is 0, and lies between
\* 0.64 x base_price and 1.45 x base_price up to a relative rounding error of
\* one part in 10^15
C29_WithinRounding ==
    ValidatedCall =>
        /\ NeverNegative
        /\ FGe(result.adjusted_price, FMul(FSub(Dec(64, 2), RoundingError), result.base_price))
        /\ FLe(result.adjusted_price, FMul(FAdd(Dec(145, 2), RoundingError), result.base_price))

\* both ratings are 1, the base price is positive, and the adjusted price is
\* a rounding error below 0.64 x base_price
C29_Witness ==
    /\ ValidatedCall
    /\ FEq(call.uniqueness, One) /\ FEq(call.demand, One)
    /\ FGt(result.base_price, FZero)
    /\ FGt(result.adjusted_price, FZero)
    /\ FLt(result.adjusted_price, FMul(Dec(64, 2), result.base_price))

(***************************************************************************)
(* Claims about DEFAULT_CONFIG                                             *)
(***************************************************************************)
\* the Config object configs[i] was created from the defaults: there was no
\* settings file, or it could not be read
FromDefaults(i) == configs[i].source = "defaults"

\* set was called on Config objects created from the defaults only
OnlyDefaultsSet == \A i \in DOMAIN configs : configs[i].was_set => FromDefaults(i)

\* DEFAULT_CONFIG holds the values of its literal
DefaultsIntact == Deep(heap, DEFAULT_CONFIG) = DefaultValues

\* C30 as stated: Config.set never changes DEFAULT_CONFIG: after any sequence
\* of set calls on Config objects created from the defaults, DEFAULT_CONFIG
\* holds its original values, and every Config created from the defaults got
\* the original values
C30_AsStated ==
    OnlyDefaultsSet =>
        /\ DefaultsIntact
        /\ \A i \in DOMAIN configs : FromDefaults(i) => configs[i].created = DefaultValues

\* set was called on a Config created from the defaults, and a Config created
\* from the defaults after it holds the value that was set
C30_Witness ==
    /\ OnlyDefaultsSet
    /\ Len(configs) = 2
    /\ FromDefaults(1) /\ configs[1].was_set
    /\ FromDefaults(2) /\ ~configs[2].was_set
    /\ configs[2].created.pricing.uniqueness_weight = Dec(5, 1)
    /\ ~DefaultsIntact

=============================================================================
